---- MODULE Spec2Model ----
(***************************************************************************)
(* A model of the multiparty_ble packet protocol: the packet codec         *)
(* (protocol.py), the integrity digest (checksum.py), the sender pipeline  *)
(* (client.py, optimized_transfer over transport.py) and the receiver      *)
(* reassembler (server.py, write_callback).                                *)
(*                                                                         *)
(* Bytes are integers in 0..255 and byte strings are sequences of them.    *)
(* Python integers of unbounded size (the CRC, int.from_bytes) are kept as *)
(* canonical little-endian sequences of 16-bit limbs, because TLC's        *)
(* integers are 32-bit signed.                                             *)
(***************************************************************************)
EXTENDS Integers, Sequences, FiniteSets, TLC

VARIABLES
    \* ---- client.py / transport.py: one run of main() ----
    pc,             \* position of optimized_transfer
    connected,      \* BleTransport.is_connected()
    msg,            \* the caller's bytes (the argument `data` on entry)
    mtu,            \* the value transport.get_mtu() returned
    data,           \* local `data` after the compression decision
    flags,          \* local `flags` after the compression decision
    packets,        \* local `packets`, the Data packets built
    sent_count,     \* local `sent_count`
    error,          \* the exception optimized_transfer raised, "" if none
    \* ---- the link: write characteristic and notify characteristic ----
    wire,           \* every packet written to the write characteristic, in order
    delivered,      \* how many of them write_callback has been called with
    notifications,  \* every value sent on the notify characteristic, in order
    notified,       \* how many of them on_data_received has been called with
    client_log,     \* what on_data_received logged for the last one
    \* ---- server.py ----
    received_data,  \* the global reassembly buffer
    ble_peripheral, \* the global peripheral: "none", "ready", "no_char" or "raises"
    rx_event,       \* the outcome write_callback logged for the last packet
    \* ---- protocol.py exercised on its own ----
    codec_pc,       \* "args", "built", "raw" or "parsed"
    codec_args,     \* the arguments given to build_packet
    codec_pkt,      \* the bytes build_packet returned, or raw input bytes
    codec_out,      \* what parse_packet returned or raised
    \* ---- more than one call at a time ----
    handlers,       \* write_callback calls running in different threads, and the
                    \* bytearray objects they hold references to
    tasks,          \* optimized_transfer coroutines sharing one transport
    \* ---- transport.py: the BleakClient the transport holds ----
    _client,        \* BleTransport._client: "None" or "BleakClient"
    \* ---- client0.py: one call of try_connect_with_retry ----
    retry_task      \* its position, argument, locals, result, and what it has done

clientVars == <<pc, connected, msg, mtu, data, flags, packets, sent_count, error>>
linkVars   == <<wire, delivered, notifications>>
serverVars == <<received_data, ble_peripheral, rx_event>>
codecVars  == <<codec_pc, codec_args, codec_pkt, codec_out>>
inboundVars == <<notified, client_log>>
concVars   == <<handlers, tasks>>
transportVars == <<_client>>
retryVars  == <<retry_task>>
vars == <<clientVars, linkVars, serverVars, codecVars, inboundVars, concVars,
          transportVars, retryVars>>

-----------------------------------------------------------------------------
(* Bounds of the model *)

\* Longest message enumerated byte by byte (the named long messages are extra).
MaxLen == 2
\* Longest payload enumerated byte by byte for the codec.
MaxPayloadLen == 2
\* Longest raw input enumerated byte by byte for parse_packet.
MaxRawLen == 9
\* Most packets a central writes to the receiver in the receiver-only runs.
MaxInjected == 3

\* The byte values messages and payloads are drawn from.
ByteSamples == {0, 65, 255}

RECURSIVE SeqsUpTo(_, _)
SeqsUpTo(S, n) ==
    IF n = 0 THEN {<<>>}
    ELSE LET shorter == SeqsUpTo(S, n - 1)
         IN  shorter \cup {Append(s, b) : s \in {t \in shorter : Len(t) = n - 1}, b \in S}

Repeat(s, n) == [i \in 1..(n * Len(s)) |-> s[((i - 1) % Len(s)) + 1]]

-----------------------------------------------------------------------------
(* protocol.py *)

PacketFlags_NONE           == 0
PacketFlags_LAST_PACKET    == 1
PacketFlags_ACK_REQUIRED   == 2
PacketFlags_METADATA       == 4
PacketFlags_BASE64_ENCODED == 8
PacketFlags_COMPRESSED     == 16

PacketType_DATA     == 1
PacketType_ACK      == 2
PacketType_CHECKSUM == 3
PacketType_METADATA == 4

\* The members of the Enum PacketType.
PacketType == {PacketType_DATA, PacketType_ACK, PacketType_CHECKSUM, PacketType_METADATA}

\* struct.calcsize("<BBHHH"): 1 + 1 + 2 + 2 + 2 bytes.
HEADER_SIZE == 8

\* `flag in flags` for a single-bit flag of the IntFlag.
HasFlag(fl, flag) == (fl \div flag) % 2 = 1
\* `flags | flag` for a single-bit flag.
OrFlag(fl, flag) == IF HasFlag(fl, flag) THEN fl ELSE fl + flag

\* Mutant of PackH: the two bytes in big-endian order.
PackH_BigEndian(n) == <<n \div 256, n % 256>>

\* struct.pack("<H", n): two bytes, little-endian.
PackH(n) == <<n % 256, n \div 256>>
\* struct.unpack("<H", b) of the two bytes lo, hi.
UnpackH(lo, hi) == lo + 256 * hi

\* struct.pack(HEADER_FORMAT, ...) raises struct.error unless every field fits
\* its format: B is 0..255, H is 0..65535.
struct_pack_ok(packet_type, fl, packet_id, total_packets, payload) ==
    /\ packet_type \in 0..255
    /\ fl \in 0..255
    /\ packet_id \in 0..65535
    /\ total_packets \in 0..65535
    /\ Len(payload) \in 0..65535

\* Mutant of build_packet: payload_length counts the header too.
build_packet_LengthOfPacket(packet_type, fl, packet_id, total_packets, payload) ==
    <<packet_type, fl>> \o PackH(packet_id) \o PackH(total_packets)
        \o PackH((Len(payload) + HEADER_SIZE) % 65536) \o payload

build_packet(packet_type, fl, packet_id, total_packets, payload) ==
    <<packet_type, fl>> \o PackH(packet_id) \o PackH(total_packets)
        \o PackH(Len(payload)) \o payload

\* Mutant of parse_packet: the length check rejects a packet of exactly HEADER_SIZE bytes.
parse_packet_OffByOne(packet) ==
    IF Len(packet) <= HEADER_SIZE
    THEN [error |-> "Invalid packet size"]
    ELSE IF packet[1] \notin {1, 2, 3, 4}
    THEN [error |-> "not a valid PacketType"]
    ELSE [type           |-> packet[1],
          flags          |-> packet[2],
          packet_id      |-> packet[3] + 256 * packet[4],
          total_packets  |-> packet[5] + 256 * packet[6],
          payload_length |-> packet[7] + 256 * packet[8],
          payload        |-> SubSeq(packet, HEADER_SIZE + 1, Len(packet))]

\* Mutant of parse_packet: the type byte is taken as it is, not looked up in
\* PacketType.
parse_packet_NoTypeCheck(packet) ==
    IF Len(packet) < HEADER_SIZE
    THEN [error |-> "Invalid packet size"]
    ELSE [type           |-> packet[1],
          flags          |-> packet[2],
          packet_id      |-> packet[3] + 256 * packet[4],
          total_packets  |-> packet[5] + 256 * packet[6],
          payload_length |-> packet[7] + 256 * packet[8],
          payload        |-> SubSeq(packet, HEADER_SIZE + 1, Len(packet))]

\* Mutant of parse_packet: an input whose payload_length field is not the number
\* of bytes after the header is rejected.
parse_packet_CheckLength(packet) ==
    IF Len(packet) < HEADER_SIZE
    THEN [error |-> "Invalid packet size"]
    ELSE IF packet[1] \notin PacketType
    THEN [error |-> "not a valid PacketType"]
    ELSE IF UnpackH(packet[7], packet[8]) # Len(packet) - HEADER_SIZE
    THEN [error |-> "Invalid payload length"]
    ELSE [type           |-> packet[1],
          flags          |-> packet[2],
          packet_id      |-> UnpackH(packet[3], packet[4]),
          total_packets  |-> UnpackH(packet[5], packet[6]),
          payload_length |-> UnpackH(packet[7], packet[8]),
          payload        |-> SubSeq(packet, HEADER_SIZE + 1, Len(packet))]

\* The dict parse_packet returns, or the ValueError it raises as [error |-> ...].
\* PacketFlags is an IntFlag: every value 0..255 of the flags byte is accepted.
parse_packet(packet) ==
    IF Len(packet) < HEADER_SIZE
    THEN [error |-> "Invalid packet size"]
    ELSE IF packet[1] \notin PacketType
    THEN [error |-> "not a valid PacketType"]
    ELSE [type           |-> packet[1],
          flags          |-> packet[2],
          packet_id      |-> UnpackH(packet[3], packet[4]),
          total_packets  |-> UnpackH(packet[5], packet[6]),
          payload_length |-> UnpackH(packet[7], packet[8]),
          payload        |-> SubSeq(packet, HEADER_SIZE + 1, Len(packet))]

Raised(r) == "error" \in DOMAIN r

-----------------------------------------------------------------------------
(* checksum.py *)

RECURSIVE BitXor(_, _)
BitXor(a, b) ==
    IF a = 0 THEN b
    ELSE IF b = 0 THEN a
    ELSE 2 * BitXor(a \div 2, b \div 2) + ((a + b) % 2)

\* A 32-bit CRC register is <<high 16 bits, low 16 bits>>.
\* One bit of the reflected CRC-32 (polynomial 0xEDB88320) zlib.crc32 computes.
CrcShift(c) ==
    LET hi == c[1] \div 2
        lo == (c[2] \div 2) + (c[1] % 2) * 32768
    IN  IF c[2] % 2 = 1 THEN <<BitXor(hi, 60856), BitXor(lo, 33568)>> ELSE <<hi, lo>>

CrcTable ==
    [n \in 0..255 |->
        CrcShift(CrcShift(CrcShift(CrcShift(CrcShift(CrcShift(CrcShift(CrcShift(<<0, n>>))))))))]

CrcByte(c, b) ==
    LET t == CrcTable[BitXor(c[2] % 256, b)]
    IN  <<BitXor(t[1], c[1] \div 256), BitXor(t[2], (c[2] \div 256) + (c[1] % 256) * 256)>>

\* The register after the bytes lo..hi of `bytes`, taken in order from register c.
\* The range is halved, and the left half evaluated first, only to keep the
\* evaluation shallow; the bytes are folded strictly left to right.
RECURSIVE CrcFold(_, _, _, _)
CrcFold(c, bytes, lo, hi) ==
    IF lo > hi THEN c
    ELSE IF lo = hi THEN CrcByte(c, bytes[lo])
    ELSE LET mid  == (lo + hi) \div 2
             left == CrcFold(c, bytes, lo, mid)
         IN  IF left[1] >= 0 THEN CrcFold(left, bytes, mid + 1, hi) ELSE left

\* zlib.crc32(data) as a 32-bit register.
zlib_crc32(bytes) ==
    LET c == CrcFold(<<65535, 65535>>, bytes, 1, Len(bytes))
    IN  <<BitXor(c[1], 65535), BitXor(c[2], 65535)>>

\* A Python int >= 0: its 16-bit limbs, least significant first, no leading zero limb.
RECURSIVE Canon(_)
Canon(limbs) ==
    IF limbs # <<>> /\ limbs[Len(limbs)] = 0
    THEN Canon(SubSeq(limbs, 1, Len(limbs) - 1))
    ELSE limbs

\* compute_checksum(data): zlib.crc32(data) & 0xFFFFFFFF, as a Python int.
compute_checksum(bytes) ==
    LET c == zlib_crc32(bytes) IN Canon(<<c[2], c[1]>>)

\* Mutant of int_from_bytes: byteorder="big".
int_from_bytes_BigEndian(b) ==
    LET r == [i \in 1..Len(b) |-> b[Len(b) + 1 - i]]
    IN  Canon([i \in 1..((Len(r) + 1) \div 2) |->
                  r[2 * i - 1] + 256 * (IF 2 * i <= Len(r) THEN r[2 * i] ELSE 0)])

\* int.from_bytes(b, byteorder="little"), for a byte string of any length.
int_from_bytes(b) ==
    Canon([i \in 1..((Len(b) + 1) \div 2) |->
              b[2 * i - 1] + 256 * (IF 2 * i <= Len(b) THEN b[2 * i] ELSE 0)])

\* Mutant of to_bytes4: the four bytes in big-endian order.
to_bytes4_BigEndian(n) ==
    LET limb(i) == IF i <= Len(n) THEN n[i] ELSE 0
    IN  <<limb(2) \div 256, limb(2) % 256, limb(1) \div 256, limb(1) % 256>>

\* n.to_bytes(4, byteorder="little"), for 0 <= n < 2^32.
to_bytes4(n) ==
    LET limb(i) == IF i <= Len(n) THEN n[i] ELSE 0
    IN  PackH(limb(1)) \o PackH(limb(2))

verify_checksum(bytes, expected_checksum) ==
    compute_checksum(bytes) = expected_checksum

-----------------------------------------------------------------------------
(* The inputs: messages and MTUs *)

\* b"A" * 64, b"A" * 65, b"AB" * 40
MsgA64  == Repeat(<<65>>, 64)
MsgA65  == Repeat(<<65>>, 65)
MsgAB40 == Repeat(<<65, 66>>, 40)
\* bytes(range(55)) + b"A" * 10: 65 bytes that zlib compresses to exactly 65 bytes.
MsgE65  == [i \in 1..65 |-> IF i <= 55 THEN i - 1 ELSE 65]

\* bytes(pow(17, i, 46337) % 256 for i in range(1, 65537)): 65536 bytes without
\* repetitions that zlib could use; PowersOf17(n) is the sequence of 17^i mod
\* 46337 for i = 1..n, n a power of two.
RECURSIVE PowersOf17(_)
PowersOf17(n) ==
    IF n = 1 THEN <<17>>
    ELSE LET half == PowersOf17(n \div 2)
             step == half[n \div 2]
         IN  half \o [i \in 1..(n \div 2) |-> (half[i] * step) % 46337]

MsgRand64K == LET p == PowersOf17(65536) IN [i \in 1..65536 |-> p[i] % 256]

LongMsgs  == {MsgA64, MsgA65, MsgAB40, MsgE65}
ShortMsgs == SeqsUpTo(ByteSamples, MaxLen)
Msgs      == ShortMsgs \cup LongMsgs

\* What transport.get_mtu() may return. BleTransport's placeholder returns 244;
\* optimized_transfer works with whatever its transport reports, and the smaller
\* values give max payloads of 2, 3 and 20 bytes.
MTUs == {9, 10, 27, 244}

\* zlib.compress(data) at the default level (zlib 1.2.13), on the long messages.
zlib_compress(bytes) ==
    CASE Len(bytes) = 65536 /\ bytes = MsgRand64K ->
            \* four stored blocks of 16383 bytes, the last 4 bytes in a block of
            \* their own, then the Adler-32 of the input
            <<120, 156>>
            \o <<0, 255, 63, 0, 192>> \o SubSeq(bytes, 1, 16383)
            \o <<0, 255, 63, 0, 192>> \o SubSeq(bytes, 16384, 32766)
            \o <<0, 255, 63, 0, 192>> \o SubSeq(bytes, 32767, 49149)
            \o <<0, 255, 63, 0, 192>> \o SubSeq(bytes, 49150, 65532)
            \o <<11, 153, 180, 113, 27, 0>>
            \o <<235, 253, 162, 85>>
      [] bytes = MsgA64  -> <<120, 156, 115, 116, 164, 12, 0, 0, 16, 126, 16, 65>>
      [] bytes = MsgA65  -> <<120, 156, 115, 116, 164, 16, 0, 0, 33, 0, 16, 130>>
      [] bytes = MsgAB40 -> <<120, 156, 115, 116, 114, 164, 42, 4, 0, 61, 101, 20, 121>>
      [] bytes = MsgE65  ->
            <<120, 156, 99, 96, 100, 98, 102, 97, 101, 99, 231, 224, 228, 226, 230,
              225, 229, 227, 23, 16, 20, 18, 22, 17, 21, 19, 151, 144, 148, 146, 150,
              145, 149, 147, 87, 80, 84, 82, 86, 81, 85, 83, 215, 208, 212, 210, 214,
              209, 213, 211, 55, 48, 52, 50, 54, 49, 53, 115, 132, 3, 0, 180, 130, 8, 88>>

-----------------------------------------------------------------------------
(* client.py: optimized_transfer *)

MAX_IN_FLIGHT == 5
COMPRESSION_THRESHOLD == 64

\* max_payload = mtu - 7
max_payload(t) == t - 7

\* Mutant of Compressing: the compressed bytes are kept but the flag is not set.
Compressing_NoFlag(m) ==
    IF Len(m) > COMPRESSION_THRESHOLD
    THEN LET compressed == zlib_compress(m)
         IN  IF Len(compressed) < Len(m)
             THEN [data |-> compressed, flags |-> PacketFlags_NONE]
             ELSE [data |-> m, flags |-> PacketFlags_NONE]
    ELSE [data |-> m, flags |-> PacketFlags_NONE]

\* Mutant of Compressing: the message is never compressed.
Compressing_Never(m) == [data |-> m, flags |-> PacketFlags_NONE]

\* Mutant of Compressing: the compressed form is kept when it is not larger,
\* also when it has the size of the message.
Compressing_KeepNotLarger(m) ==
    IF Len(m) > COMPRESSION_THRESHOLD
    THEN LET compressed == zlib_compress(m)
         IN  IF Len(compressed) <= Len(m)
             THEN [data |-> compressed, flags |-> PacketFlags_COMPRESSED]
             ELSE [data |-> m, flags |-> PacketFlags_NONE]
    ELSE [data |-> m, flags |-> PacketFlags_NONE]

\* The compression decision: the bytes to fragment and the flags of the message.
Compressing(m) ==
    IF Len(m) > COMPRESSION_THRESHOLD
    THEN LET compressed == zlib_compress(m)
         IN  IF Len(compressed) < Len(m)
             THEN [data |-> compressed, flags |-> PacketFlags_COMPRESSED]
             ELSE [data |-> m, flags |-> PacketFlags_NONE]
    ELSE [data |-> m, flags |-> PacketFlags_NONE]

\* Mutant of total_packets: the count is reduced modulo 2^16, the width of its
\* header field.
total_packets_Mod16(d, P) == ((Len(d) + P - 1) \div P) % 65536

\* Mutant of total_packets: rounds down, dropping a partial last chunk.
total_packets_Floor(d, P) == Len(d) \div P

\* total_packets = (len(data) + max_payload - 1) // max_payload
total_packets(d, P) == (Len(d) + P - 1) \div P

Min(a, b) == IF a < b THEN a ELSE b

\* chunk = data[start:end] of loop index i (0-based)
chunk(d, P, i) == SubSeq(d, i * P + 1, Min(i * P + P, Len(d)))

\* Mutant of pkt_flags: LastPacket is tested against the count, not the last index.
pkt_flags_LastOffByOne(fl, i, total) ==
    LET f1 == IF i = total THEN OrFlag(fl, PacketFlags_LAST_PACKET) ELSE fl
    IN  IF (i + 1) % MAX_IN_FLIGHT = 0 THEN OrFlag(f1, PacketFlags_ACK_REQUIRED) ELSE f1

\* Mutant of pkt_flags: AckRequired is tested against the 0-based loop index, so
\* it lands on sequence_id 1, 6, 11, ...
pkt_flags_AckOffByOne(fl, i, total) ==
    LET f1 == IF i = total - 1 THEN OrFlag(fl, PacketFlags_LAST_PACKET) ELSE fl
    IN  IF i % MAX_IN_FLIGHT = 0 THEN OrFlag(f1, PacketFlags_ACK_REQUIRED) ELSE f1

\* pkt_flags of loop index i (0-based)
pkt_flags(fl, i, total) ==
    LET f1 == IF i = total - 1 THEN OrFlag(fl, PacketFlags_LAST_PACKET) ELSE fl
    IN  IF (i + 1) % MAX_IN_FLIGHT = 0 THEN OrFlag(f1, PacketFlags_ACK_REQUIRED) ELSE f1

\* Every build_packet call of the loop succeeds.
FragmentingOk(d, fl, P) ==
    \A i \in 0..(total_packets(d, P) - 1) :
        struct_pack_ok(PacketType_DATA, pkt_flags(fl, i, total_packets(d, P)), i + 1,
                       total_packets(d, P), chunk(d, P, i))

\* The list `packets` after the loop.
Fragmenting(d, fl, P) ==
    LET total == total_packets(d, P)
    IN  [k \in 1..total |->
            build_packet(PacketType_DATA, pkt_flags(fl, k - 1, total), k, total,
                         chunk(d, P, k - 1))]

\* Mutant of checksum_packet: the digest is taken over the caller's bytes, not
\* over the bytes that were fragmented.
checksum_packet_OfOriginal(d) ==
    build_packet(PacketType_CHECKSUM, PacketFlags_LAST_PACKET, 0, 1,
                 to_bytes4(compute_checksum(msg)))

\* Mutant of checksum_packet: the digest is taken over the first chunk only.
checksum_packet_OfFirstChunk(d) ==
    build_packet(PacketType_CHECKSUM, PacketFlags_LAST_PACKET, 0, 1,
                 to_bytes4(compute_checksum(chunk(d, max_payload(mtu), 0))))

\* The Checksum packet built after the loop.
checksum_packet(d) ==
    build_packet(PacketType_CHECKSUM, PacketFlags_LAST_PACKET, 0, 1,
                 to_bytes4(compute_checksum(d)))

\* optimized_transfer up to the first write: get_mtu, compression, fragmentation.
BeginTransfer(m, t) ==
    /\ msg' = m
    /\ IF ~connected
       THEN \* transport.get_mtu() raises BleakError
            /\ pc' = "failed"
            /\ error' = "Not connected"
            /\ UNCHANGED <<mtu, data, flags, packets>>
       ELSE LET c == Compressing(m)
            IN  /\ mtu' = t
                /\ data' = c.data
                /\ flags' = c.flags
                /\ IF FragmentingOk(c.data, c.flags, max_payload(t))
                   THEN /\ packets' = Fragmenting(c.data, c.flags, max_payload(t))
                        /\ pc' = "transmitting"
                        /\ error' = ""
                   ELSE /\ packets' = <<>>
                        /\ pc' = "failed"
                        /\ error' = "struct.error"
    /\ UNCHANGED <<connected, sent_count, linkVars, serverVars, codecVars, inboundVars, concVars, transportVars, retryVars>>

StartTransfer ==
    /\ pc = "idle"
    /\ \E m \in Msgs, t \in MTUs : BeginTransfer(m, t)

\* Mutant of write_data: the write is attempted first and the connection is
\* looked at afterwards.
write_data_TestAfterWrite(pkt, ok, next_pc) ==
    IF ~connected
    THEN /\ pc' = "failed"
         /\ error' = "Not connected"
         /\ wire' = Append(wire, pkt)
    ELSE IF ~ok
    THEN /\ pc' = "failed"
         /\ error' = "write failed"
         /\ UNCHANGED wire
    ELSE /\ wire' = Append(wire, pkt)
         /\ pc' = next_pc
         /\ UNCHANGED error

\* Mutant of write_data: a failed write is logged and the caller carries on.
write_data_Swallow(pkt, ok, next_pc) ==
    IF ~connected \/ ~ok
    THEN /\ pc' = next_pc
         /\ error' = "write failed"
         /\ UNCHANGED wire
    ELSE /\ wire' = Append(wire, pkt)
         /\ pc' = next_pc
         /\ UNCHANGED error

\* Mutant of write_data: no is_connected() test, the write is attempted on
\* whatever client object is left.
write_data_NoConnectedTest(pkt, ok, next_pc) ==
    IF ~ok
    THEN /\ pc' = "failed"
         /\ error' = "write failed"
         /\ UNCHANGED wire
    ELSE /\ wire' = Append(wire, pkt)
         /\ pc' = next_pc
         /\ UNCHANGED error

\* BleTransport.write_data(pkt): raises when not connected or when the GATT write
\* raises (ok = FALSE); otherwise the packet is on the link.
write_data(pkt, ok, next_pc) ==
    IF ~connected
    THEN /\ pc' = "failed"
         /\ error' = "Not connected"
         /\ UNCHANGED wire
    ELSE IF ~ok
    THEN /\ pc' = "failed"
         /\ error' = "write failed"
         /\ UNCHANGED wire
    ELSE /\ wire' = Append(wire, pkt)
         /\ pc' = next_pc
         /\ UNCHANGED error

\* Mutant of WritePacket: after every MAX_IN_FLIGHT packets the loop goes on only
\* once the matching notification has come in.
WritePacket_AwaitAck ==
    /\ pc = "transmitting"
    /\ sent_count < Len(packets)
    /\ notified >= sent_count \div MAX_IN_FLIGHT
    /\ \E ok \in BOOLEAN :
         /\ write_data(packets[sent_count + 1], ok, "transmitting")
         /\ sent_count' = IF connected /\ ok THEN sent_count + 1 ELSE sent_count
    /\ UNCHANGED <<connected, msg, mtu, data, flags, packets, delivered, notifications,
                   serverVars, codecVars, inboundVars, concVars, transportVars, retryVars>>

\* Mutant of WritePacket: the list is walked from its end.
WritePacket_Reversed ==
    /\ pc = "transmitting"
    /\ sent_count < Len(packets)
    /\ \E ok \in BOOLEAN :
         /\ write_data(packets[Len(packets) - sent_count], ok, "transmitting")
         /\ sent_count' = IF connected /\ ok THEN sent_count + 1 ELSE sent_count
    /\ UNCHANGED <<connected, msg, mtu, data, flags, packets, delivered, notifications,
                   serverVars, codecVars, inboundVars, concVars, transportVars, retryVars>>

\* One iteration of `for pkt in packets`: write, count, sleep.
WritePacket ==
    /\ pc = "transmitting"
    /\ sent_count < Len(packets)
    /\ \E ok \in BOOLEAN :
         /\ write_data(packets[sent_count + 1], ok, "transmitting")
         /\ sent_count' = IF connected /\ ok THEN sent_count + 1 ELSE sent_count
    /\ UNCHANGED <<connected, msg, mtu, data, flags, packets, delivered, notifications,
                   serverVars, codecVars, inboundVars, concVars, transportVars, retryVars>>

\* Mutant of SendChecksum: the Checksum packet goes out one Data packet early.
SendChecksum_Early ==
    /\ pc = "transmitting"
    /\ sent_count >= Len(packets) - 1
    /\ \E ok \in BOOLEAN : write_data(checksum_packet(data), ok, "done")
    /\ UNCHANGED <<connected, msg, mtu, data, flags, packets, sent_count, delivered,
                   notifications, serverVars, codecVars, inboundVars, concVars, transportVars, retryVars>>

\* After the loop: build and write the Checksum packet.
SendChecksum ==
    /\ pc = "transmitting"
    /\ sent_count = Len(packets)
    /\ \E ok \in BOOLEAN : write_data(checksum_packet(data), ok, "done")
    /\ UNCHANGED <<connected, msg, mtu, data, flags, packets, sent_count, delivered,
                   notifications, serverVars, codecVars, inboundVars, concVars, transportVars, retryVars>>

\* Mutant of Disconnect: the receiver drops its reassembly buffer when the link
\* goes down.
Disconnect_ClearsBuffer ==
    /\ connected
    /\ connected' = FALSE
    /\ _client' = "None"
    /\ received_data' = <<>>
    /\ UNCHANGED <<pc, msg, mtu, data, flags, packets, sent_count, error, linkVars,
                   ble_peripheral, rx_event, codecVars, inboundVars, concVars, retryVars>>

\* BleTransport._handle_disconnect: the link went down.
Disconnect ==
    /\ connected
    /\ connected' = FALSE
    /\ _client' = "None"
    /\ UNCHANGED <<pc, msg, mtu, data, flags, packets, sent_count, error, linkVars,
                   serverVars, codecVars, inboundVars, concVars, retryVars>>

\* BleTransport._handle_notification calling on_data_received with the next value
\* of the notify characteristic: the packet is parsed and logged, nothing else.
OnNotify ==
    /\ pc # "off"
    /\ connected
    /\ notified < Len(notifications)
    /\ client_log' = IF Raised(parse_packet(notifications[notified + 1]))
                     THEN "parse_error" ELSE "parsed"
    /\ notified' = notified + 1
    /\ UNCHANGED <<clientVars, linkVars, serverVars, codecVars, concVars, transportVars, retryVars>>

-----------------------------------------------------------------------------
(* server.py *)

\* Mutant of send_notification: the newest notification goes in front of the
\* earlier ones.
send_notification_Prepend(sent, bytes) ==
    IF ble_peripheral = "ready" THEN <<bytes>> \o sent ELSE sent

\* send_notification(data): what the notify characteristic has sent afterwards.
\* Nothing is sent, and nothing raised, when the peripheral is not initialised,
\* the characteristic is not found or sending raises.
send_notification(sent, bytes) ==
    IF ble_peripheral = "ready" THEN Append(sent, bytes) ELSE sent

\* Mutant of ack_packet: the acknowledged id is put in the header's packet_id
\* field instead of the payload.
ack_packet_EchoSeq(packet_info) ==
    build_packet(PacketType_ACK, PacketFlags_LAST_PACKET, packet_info.packet_id, 1,
                 <<>>)

\* The Ack packet write_callback builds for a Data packet.
ack_packet(packet_info) ==
    build_packet(PacketType_ACK, PacketFlags_LAST_PACKET, 0, 1,
                 PackH(packet_info.packet_id))

\* Mutant of write_callback: the buffer is reset only when the checksum is valid.
write_callback_KeepOnMismatch(value) ==
    LET packet_info == parse_packet(value)
    IN  IF Raised(packet_info)
        THEN [received_data |-> received_data,
              notifications |-> notifications,
              rx_event      |-> "error"]
        ELSE IF packet_info.type = PacketType_DATA
        THEN [received_data |-> received_data \o packet_info.payload,
              notifications |->
                  IF HasFlag(packet_info.flags, PacketFlags_ACK_REQUIRED)
                  THEN send_notification(notifications, ack_packet(packet_info))
                  ELSE notifications,
              rx_event      |-> "data"]
        ELSE IF packet_info.type = PacketType_CHECKSUM
        THEN IF verify_checksum(received_data, int_from_bytes(packet_info.payload))
             THEN [received_data |-> <<>>,
                   notifications |-> notifications,
                   rx_event      |-> "valid"]
             ELSE [received_data |-> received_data,
                   notifications |-> notifications,
                   rx_event      |-> "mismatch"]
        ELSE [received_data |-> received_data,
              notifications |-> notifications,
              rx_event      |-> "unhandled"]

\* Mutant of write_callback: the error handler also drops the buffer.
write_callback_ResetOnError(value) ==
    LET packet_info == parse_packet(value)
    IN  IF Raised(packet_info)
        THEN [received_data |-> <<>>,
              notifications |-> notifications,
              rx_event      |-> "error"]
        ELSE IF packet_info.type = PacketType_DATA
        THEN [received_data |-> received_data \o packet_info.payload,
              notifications |->
                  IF HasFlag(packet_info.flags, PacketFlags_ACK_REQUIRED)
                  THEN send_notification(notifications, ack_packet(packet_info))
                  ELSE notifications,
              rx_event      |-> "data"]
        ELSE IF packet_info.type = PacketType_CHECKSUM
        THEN [received_data |-> <<>>,
              notifications |-> notifications,
              rx_event      |->
                  IF verify_checksum(received_data, int_from_bytes(packet_info.payload))
                  THEN "valid" ELSE "mismatch"]
        ELSE [received_data |-> received_data,
              notifications |-> notifications,
              rx_event      |-> "unhandled"]

\* Mutant of write_callback: the Ack is emitted before the payload is appended
\* and a failure to emit it leaves the callback's try block at once.
write_callback_AckFirst(value) ==
    LET packet_info == parse_packet(value)
    IN  IF Raised(packet_info)
        THEN [received_data |-> received_data,
              notifications |-> notifications,
              rx_event      |-> "error"]
        ELSE IF packet_info.type = PacketType_DATA
        THEN IF HasFlag(packet_info.flags, PacketFlags_ACK_REQUIRED)
                /\ ble_peripheral # "ready"
             THEN [received_data |-> received_data,
                   notifications |-> notifications,
                   rx_event      |-> "error"]
             ELSE [received_data |-> received_data \o packet_info.payload,
                   notifications |->
                       IF HasFlag(packet_info.flags, PacketFlags_ACK_REQUIRED)
                       THEN send_notification(notifications, ack_packet(packet_info))
                       ELSE notifications,
                   rx_event      |-> "data"]
        ELSE IF packet_info.type = PacketType_CHECKSUM
        THEN [received_data |-> <<>>,
              notifications |-> notifications,
              rx_event      |->
                  IF verify_checksum(received_data, int_from_bytes(packet_info.payload))
                  THEN "valid" ELSE "mismatch"]
        ELSE [received_data |-> received_data,
              notifications |-> notifications,
              rx_event      |-> "unhandled"]

\* Mutant of write_callback: no try/except, the ValueError of parse_packet
\* leaves the callback.
write_callback_Propagate(value) ==
    LET packet_info == parse_packet(value)
    IN  IF Raised(packet_info)
        THEN [received_data |-> received_data,
              notifications |-> notifications,
              rx_event      |-> "raised"]
        ELSE IF packet_info.type = PacketType_DATA
        THEN [received_data |-> received_data \o packet_info.payload,
              notifications |->
                  IF HasFlag(packet_info.flags, PacketFlags_ACK_REQUIRED)
                  THEN send_notification(notifications, ack_packet(packet_info))
                  ELSE notifications,
              rx_event      |-> "data"]
        ELSE IF packet_info.type = PacketType_CHECKSUM
        THEN [received_data |-> <<>>,
              notifications |-> notifications,
              rx_event      |->
                  IF verify_checksum(received_data, int_from_bytes(packet_info.payload))
                  THEN "valid" ELSE "mismatch"]
        ELSE [received_data |-> received_data,
              notifications |-> notifications,
              rx_event      |-> "unhandled"]

\* Mutant of write_callback: the AckRequired bit is honoured on a packet of any
\* type that is neither Data nor Checksum.
write_callback_AckAnyType(value) ==
    LET packet_info == parse_packet(value)
    IN  IF Raised(packet_info)
        THEN [received_data |-> received_data,
              notifications |-> notifications,
              rx_event      |-> "error"]
        ELSE IF packet_info.type = PacketType_DATA
        THEN [received_data |-> received_data \o packet_info.payload,
              notifications |->
                  IF HasFlag(packet_info.flags, PacketFlags_ACK_REQUIRED)
                  THEN send_notification(notifications, ack_packet(packet_info))
                  ELSE notifications,
              rx_event      |-> "data"]
        ELSE IF packet_info.type = PacketType_CHECKSUM
        THEN [received_data |-> <<>>,
              notifications |-> notifications,
              rx_event      |->
                  IF verify_checksum(received_data, int_from_bytes(packet_info.payload))
                  THEN "valid" ELSE "mismatch"]
        ELSE [received_data |-> received_data,
              notifications |->
                  IF HasFlag(packet_info.flags, PacketFlags_ACK_REQUIRED)
                  THEN send_notification(notifications, ack_packet(packet_info))
                  ELSE notifications,
              rx_event      |-> "unhandled"]

\* Mutant of write_callback: a Data packet with sequence_id 1 is taken as the
\* start of a message and replaces what the buffer holds.
write_callback_RestartAtFirst(value) ==
    LET packet_info == parse_packet(value)
    IN  IF Raised(packet_info)
        THEN [received_data |-> received_data,
              notifications |-> notifications,
              rx_event      |-> "error"]
        ELSE IF packet_info.type = PacketType_DATA
        THEN [received_data |-> IF packet_info.packet_id = 1
                                THEN packet_info.payload
                                ELSE received_data \o packet_info.payload,
              notifications |->
                  IF HasFlag(packet_info.flags, PacketFlags_ACK_REQUIRED)
                  THEN send_notification(notifications, ack_packet(packet_info))
                  ELSE notifications,
              rx_event      |-> "data"]
        ELSE IF packet_info.type = PacketType_CHECKSUM
        THEN [received_data |-> <<>>,
              notifications |-> notifications,
              rx_event      |->
                  IF verify_checksum(received_data, int_from_bytes(packet_info.payload))
                  THEN "valid" ELSE "mismatch"]
        ELSE [received_data |-> received_data,
              notifications |-> notifications,
              rx_event      |-> "unhandled"]

\* write_callback(value, options): the buffer, the notifications and the logged
\* outcome after the call. Every exception is caught and logged.
write_callback(value) ==
    LET packet_info == parse_packet(value)
    IN  IF Raised(packet_info)
        THEN [received_data |-> received_data,
              notifications |-> notifications,
              rx_event      |-> "error"]
        ELSE IF packet_info.type = PacketType_DATA
        THEN [received_data |-> received_data \o packet_info.payload,
              notifications |->
                  IF HasFlag(packet_info.flags, PacketFlags_ACK_REQUIRED)
                  THEN send_notification(notifications, ack_packet(packet_info))
                  ELSE notifications,
              rx_event      |-> "data"]
        ELSE IF packet_info.type = PacketType_CHECKSUM
        THEN [received_data |-> <<>>,
              notifications |-> notifications,
              rx_event      |->
                  IF verify_checksum(received_data, int_from_bytes(packet_info.payload))
                  THEN "valid" ELSE "mismatch"]
        ELSE [received_data |-> received_data,
              notifications |-> notifications,
              rx_event      |-> "unhandled"]

\* The peripheral calls write_callback with the next packet written to the
\* write characteristic.
Deliver ==
    /\ delivered < Len(wire)
    /\ LET r == write_callback(wire[delivered + 1])
       IN  /\ received_data' = r.received_data
           /\ notifications' = r.notifications
           /\ rx_event' = r.rx_event
    /\ delivered' = delivered + 1
    /\ UNCHANGED <<clientVars, wire, ble_peripheral, codecVars, inboundVars, concVars, transportVars, retryVars>>

-----------------------------------------------------------------------------
(* One client run against a freshly started server *)

\* No concurrent write_callback calls, no concurrent transfers.
NoHandlers == [heap |-> <<>>, buf |-> 0, initial |-> <<>>, ctx |-> <<>>]
NoTasks    == <<>>

\* try_connect_with_retry has not been called.
NoRetry ==
    [pc |-> "idle", max_retries |-> 0, address_type |-> "", retries |-> 0,
     last_error |-> "None", result |-> "none", log |-> <<>>]

NoArgs == [packet_type |-> 0, flags |-> 0, packet_id |-> 0, total_packets |-> 0,
           payload |-> <<>>]
NoOut  == [error |-> "none"]

CodecIdle ==
    /\ codec_pc = "off"
    /\ codec_args = NoArgs
    /\ codec_pkt = <<>>
    /\ codec_out = NoOut

Init ==
    /\ retry_task = NoRetry
    /\ pc = "idle"
    /\ connected = TRUE
    /\ _client = "BleakClient"
    /\ msg = <<>>
    /\ mtu = 0
    /\ data = <<>>
    /\ flags = PacketFlags_NONE
    /\ packets = <<>>
    /\ sent_count = 0
    /\ error = ""
    /\ wire = <<>>
    /\ delivered = 0
    /\ notifications = <<>>
    /\ received_data = <<>>
    /\ ble_peripheral = "ready"
    /\ rx_event = "none"
    /\ notified = 0
    /\ client_log = "none"
    /\ handlers = NoHandlers
    /\ tasks = NoTasks
    /\ CodecIdle

Next ==
    \/ StartTransfer
    \/ WritePacket
    \/ SendChecksum
    \/ Disconnect
    \/ Deliver
    \/ OnNotify

Spec == Init /\ [][Next]_vars

\* The same run under the scheduling of the event loop: an awaited write returns
\* or raises and the 10 ms sleep ends, so the transfer's next step is taken. When
\* the peripheral processes a write and when a notification comes in is not
\* constrained.
SpecLive == Init /\ [][Next]_vars /\ WF_vars(WritePacket) /\ WF_vars(SendChecksum)

-----------------------------------------------------------------------------
(* protocol.py on its own: build_packet and parse_packet applied to inputs *)

\* 16-bit field values: both bytes zero, low byte full, high byte only, all ones.
U16Samples == {0, 255, 256, 65535}

\* Payloads whose length needs the high byte of payload_length, up to the largest
\* the header can state.
BigPayloads == {[i \in 1..n |-> i % 256] : n \in {255, 256, 65535}}

CodecArgs ==
    [packet_type : PacketType, flags : 0..31, packet_id : U16Samples,
     total_packets : U16Samples, payload : SeqsUpTo({0, 255}, MaxPayloadLen)]
    \cup
    [packet_type : {PacketType_DATA}, flags : {PacketFlags_LAST_PACKET},
     packet_id : {1}, total_packets : {1}, payload : BigPayloads]
    \cup
    \* arguments struct.pack rejects
    [packet_type : {PacketType_DATA}, flags : {PacketFlags_NONE},
     packet_id : {1, 65536}, total_packets : {1, 65536}, payload : {<<>>}]

\* Raw inputs of every length up to MaxRawLen; 3 is a valid type byte, 200 is not.
\* Then every type byte and every flags byte, in inputs of 7 and of 8 bytes.
RawPackets ==
    SeqsUpTo({3, 200}, MaxRawLen)
    \cup {<<t, 0, 1, 0, 1, 0, 0>> : t \in 0..255}
    \cup {<<t, 0, 1, 0, 1, 0, 0, 0>> : t \in 0..255}
    \cup {<<1, f, 1, 0, 1, 0, 0>> : f \in 0..255}
    \cup {<<1, f, 1, 0, 1, 0, 0, 0>> : f \in 0..255}

InitCodec ==
    /\ retry_task = NoRetry
    /\ pc = "off"
    /\ connected = FALSE
    /\ _client = "None"
    /\ msg = <<>>
    /\ mtu = 0
    /\ data = <<>>
    /\ flags = PacketFlags_NONE
    /\ packets = <<>>
    /\ sent_count = 0
    /\ error = ""
    /\ wire = <<>>
    /\ delivered = 0
    /\ notifications = <<>>
    /\ received_data = <<>>
    /\ ble_peripheral = "none"
    /\ rx_event = "none"
    /\ notified = 0
    /\ client_log = "none"
    /\ handlers = NoHandlers
    /\ tasks = NoTasks
    /\ codec_out = NoOut
    /\ \/ /\ codec_pc = "args"
          /\ codec_args \in CodecArgs
          /\ codec_pkt = <<>>
       \/ /\ codec_pc = "raw"
          /\ codec_args = NoArgs
          /\ codec_pkt \in RawPackets

\* build_packet(**codec_args)
CodecBuild ==
    /\ codec_pc = "args"
    /\ LET a == codec_args
       IN  IF struct_pack_ok(a.packet_type, a.flags, a.packet_id, a.total_packets, a.payload)
           THEN /\ codec_pkt' = build_packet(a.packet_type, a.flags, a.packet_id,
                                             a.total_packets, a.payload)
                /\ codec_pc' = "built"
                /\ UNCHANGED codec_out
           ELSE /\ codec_out' = [error |-> "struct.error"]
                /\ codec_pc' = "build_failed"
                /\ UNCHANGED codec_pkt
    /\ UNCHANGED <<codec_args, clientVars, linkVars, serverVars, inboundVars, concVars, transportVars, retryVars>>

\* parse_packet(codec_pkt)
CodecParse ==
    /\ codec_pc \in {"built", "raw"}
    /\ codec_out' = parse_packet(codec_pkt)
    /\ codec_pc' = "parsed"
    /\ UNCHANGED <<codec_args, codec_pkt, clientVars, linkVars, serverVars, inboundVars, concVars, transportVars, retryVars>>

NextCodec == CodecBuild \/ CodecParse

SpecCodec == InitCodec /\ [][NextCodec]_vars

-----------------------------------------------------------------------------
(* server.py on its own: any central may write any bytes, in any order *)

RxPackets ==
    \* Data packets without AckRequired
    {build_packet(PacketType_DATA, PacketFlags_NONE, 1, 2, pl) : pl \in {<<65>>, <<0, 255>>}}
    \* Data packets with AckRequired: sequence 5, and sequence 261 (0x0105) also last
    \cup {build_packet(PacketType_DATA, PacketFlags_ACK_REQUIRED, 5, 5, <<65>>),
          build_packet(PacketType_DATA, 3, 261, 261, <<0, 255>>)}
    \* a last Data packet with an empty payload
    \cup {build_packet(PacketType_DATA, PacketFlags_LAST_PACKET, 2, 2, <<>>)}
    \* Checksum packets: the digest of b"", of b"A", and payloads that are no digest
    \cup {build_packet(PacketType_CHECKSUM, PacketFlags_LAST_PACKET, 0, 1, pl) :
            pl \in {to_bytes4(compute_checksum(<<>>)), to_bytes4(compute_checksum(<<65>>)),
                    <<>>, <<139, 158, 217, 211, 0>>}}
    \* Ack and Metadata packets, the Ack with the AckRequired bit set
    \cup {build_packet(PacketType_ACK, PacketFlags_ACK_REQUIRED, 0, 1, PackH(5)),
          build_packet(PacketType_METADATA, PacketFlags_METADATA, 0, 1, <<65>>)}
    \* a Data packet whose payload_length field is wrong, an unknown type with the
    \* AckRequired bit set, inputs of 3 and of 7 bytes
    \cup {<<1, 0, 1, 0, 1, 0, 9, 0, 66>>, <<9, 2, 5, 0, 5, 0, 1, 0, 65>>,
          <<1, 0, 1>>, <<1, 2, 5, 0, 5, 0, 0>>}
    \* a Data packet whose payload_length field says 0 before two bytes
    \cup {<<1, 0, 1, 0, 1, 0, 0, 0, 66, 67>>}

\* What sending a notification meets: the peripheral published and working, the
\* global still None, the notify characteristic not found, or sending raising.
PeripheralStates == {"ready", "none", "no_char", "raises"}

InitRecv ==
    /\ retry_task = NoRetry
    /\ pc = "off"
    /\ connected = FALSE
    /\ _client = "None"
    /\ msg = <<>>
    /\ mtu = 0
    /\ data = <<>>
    /\ flags = PacketFlags_NONE
    /\ packets = <<>>
    /\ sent_count = 0
    /\ error = ""
    /\ wire = <<>>
    /\ delivered = 0
    /\ notifications = <<>>
    /\ received_data = <<>>
    /\ ble_peripheral \in PeripheralStates
    /\ rx_event = "none"
    /\ notified = 0
    /\ client_log = "none"
    /\ handlers = NoHandlers
    /\ tasks = NoTasks
    /\ CodecIdle

\* A central writes one packet to the write characteristic.
Inject ==
    /\ delivered = Len(wire)
    /\ Len(wire) < MaxInjected
    /\ \E p \in RxPackets : wire' = Append(wire, p)
    /\ UNCHANGED <<clientVars, delivered, notifications, serverVars, codecVars, inboundVars, concVars, transportVars, retryVars>>

NextRecv == Inject \/ Deliver

SpecRecv == InitRecv /\ [][NextRecv]_vars

-----------------------------------------------------------------------------
(* Properties *)

\* The Data packets have been built by the transfer in progress or finished.
Built == mtu # 0 /\ error # "struct.error"

\* The parsed k-th Data packet the sender built, the parsed j-th packet on the link.
Pkt(k)     == parse_packet(packets[k])
OnWire(j)  == parse_packet(wire[j])

\* The payloads of the first n packets of pkts, concatenated in list order.
RECURSIVE ConcatPayloads(_, _)
ConcatPayloads(pkts, n) ==
    IF n = 0 THEN <<>>
    ELSE ConcatPayloads(pkts, n - 1) \o parse_packet(pkts[n]).payload

CeilDiv(a, b) == IF a % b = 0 THEN a \div b ELSE (a \div b) + 1

\* The next packet write_callback will be called with is a Checksum packet.
ChecksumNext ==
    /\ delivered < Len(wire)
    /\ ~Raised(OnWire(delivered + 1))
    /\ OnWire(delivered + 1).type = PacketType_CHECKSUM

\* The packet write_callback was last called with is a well-formed Checksum packet.
ChecksumProcessed ==
    /\ delivered > 0
    /\ ~Raised(OnWire(delivered))
    /\ OnWire(delivered).type = PacketType_CHECKSUM

\* C1: when the packets of a transfer are delivered in order and without loss to
\* a receiver whose buffer started empty, the verification done on the Checksum
\* packet succeeds, for every message (the empty one included).
C1_ChecksumVerifies ==
    ChecksumProcessed => rx_event = "valid"

C1_Witness ==
    /\ ChecksumProcessed
    /\ rx_event = "valid"
    /\ flags = PacketFlags_COMPRESSED
    /\ Len(packets) > 1

\* C2: after a lossless in-order round trip, the bytes the receiver holds as the
\* reassembled message when it processes the Checksum packet equal the original
\* message, also for a message the sender compressed.
C2_ReassembledEqualsOriginal ==
    ChecksumNext => received_data = msg

\* C3: parse_packet(build_packet(type, flags, seq, total, payload)) returns exactly
\* (type, flags, seq, total, payload), with payload_length = len(payload).
C3_CodecRoundTrip ==
    (codec_pc = "parsed" /\ codec_args # NoArgs) =>
        codec_out = [type           |-> codec_args.packet_type,
                     flags          |-> codec_args.flags,
                     packet_id      |-> codec_args.packet_id,
                     total_packets  |-> codec_args.total_packets,
                     payload_length |-> Len(codec_args.payload),
                     payload        |-> codec_args.payload]

C3_Witness ==
    /\ codec_pc = "parsed"
    /\ Len(codec_args.payload) = 65535
    /\ codec_out.payload_length = 65535

\* C4: for data of length L after the compression decision and max payload
\* P = MTU - 7, the sender builds exactly ceil(L/P) Data packets, each carries
\* total_count = ceil(L/P) and a payload of 1..P bytes, and the payloads
\* concatenated in sequence order equal the data.
C4_Fragmentation ==
    Built =>
        LET P == mtu - 7
            n == CeilDiv(Len(data), P)
        IN  /\ Len(packets) = n
            /\ \A k \in 1..Len(packets) :
                 /\ Pkt(k).type = PacketType_DATA
                 /\ Pkt(k).packet_id = k
                 /\ Pkt(k).total_packets = n
                 /\ Len(Pkt(k).payload) \in 1..P
            /\ ConcatPayloads(packets, Len(packets)) = data

C4_Witness ==
    /\ Built
    /\ flags = PacketFlags_COMPRESSED
    /\ Len(packets) > 1
    /\ Len(data) % (mtu - 7) # 0

\* C5: among the Data packets of one message, LastPacket is carried by the packet
\* with sequence_id = total_count and by no other; for an empty message there is
\* no Data packet and LastPacket appears only on the Checksum packet.
C5_LastPacketFlag ==
    /\ \A k \in 1..Len(packets) :
         HasFlag(Pkt(k).flags, PacketFlags_LAST_PACKET)
            <=> (Pkt(k).packet_id = Pkt(k).total_packets)
    /\ packets # <<>> =>
         \E k \in 1..Len(packets) :
            /\ Pkt(k).packet_id = Pkt(k).total_packets
            /\ HasFlag(Pkt(k).flags, PacketFlags_LAST_PACKET)
    /\ (Built /\ msg = <<>>) =>
         /\ packets = <<>>
         /\ \A j \in 1..Len(wire) :
              /\ OnWire(j).type = PacketType_CHECKSUM
              /\ HasFlag(OnWire(j).flags, PacketFlags_LAST_PACKET)

C5_Witness ==
    /\ pc = "done"
    /\ Len(packets) = MAX_IN_FLIGHT
    /\ HasFlag(Pkt(Len(packets)).flags, PacketFlags_LAST_PACKET)
    /\ ~HasFlag(Pkt(1).flags, PacketFlags_LAST_PACKET)

\* C6: in a transfer that completes without a write failure the link sees exactly
\* total_count Data packets followed by exactly one Checksum packet: no Checksum
\* packet before the last Data packet, no Data packet after the Checksum packet.
C6_DataThenChecksum ==
    /\ Len(wire) <= Len(packets) + 1
    /\ \A j \in 1..Len(wire) :
         IF j <= Len(packets)
         THEN wire[j] = packets[j] /\ OnWire(j).type = PacketType_DATA
         ELSE OnWire(j).type = PacketType_CHECKSUM
    /\ pc = "done" =>
         /\ Len(wire) = Len(packets) + 1
         /\ \A k \in 1..Len(packets) : Pkt(k).total_packets = Len(packets)
    /\ Len(wire) = Len(packets) + 1 => pc = "done"

C6_Witness ==
    /\ pc = "done"
    /\ Len(packets) >= 2
    /\ Len(wire) = Len(packets) + 1
    /\ OnWire(Len(wire)).type = PacketType_CHECKSUM

\* C7: processing any well-formed Checksum packet leaves the reassembly buffer
\* empty, whether the checksum matched or not and however many Data packets
\* preceded it.
C7_ChecksumClearsBuffer ==
    ChecksumProcessed => received_data = <<>>

C7_Witness ==
    /\ delivered >= 2
    /\ ChecksumProcessed
    /\ rx_event = "mismatch"
    /\ ~Raised(OnWire(delivered - 1))
    /\ OnWire(delivered - 1).type = PacketType_DATA
    /\ OnWire(delivered - 1).payload # <<>>

\* The Data packets carry Compressed and the Checksum packet, once written,
\* carries the digest of the compressed bytes.
SentCompressed ==
    /\ packets # <<>>
    /\ \A k \in 1..Len(packets) : HasFlag(Pkt(k).flags, PacketFlags_COMPRESSED)
    /\ pc = "done" =>
         OnWire(Len(wire)).payload = to_bytes4(compute_checksum(zlib_compress(msg)))

\* C8 as stated: every message of length >= 64 bytes (exactly 64 included) whose
\* compressed form is strictly smaller is sent with the Compressed flag on its
\* Data packets and the digest of the compressed bytes in its Checksum packet.
C8_Original_GateAt64 ==
    (Built /\ Len(msg) >= 64 /\ Len(zlib_compress(msg)) < Len(msg)) => SentCompressed

\* C8 as amended: every message of length > 64 bytes (65 or more) whose
\* compressed form is strictly smaller is sent with the Compressed flag on its
\* Data packets and the digest of the compressed bytes in its Checksum packet.
C8_GateAbove64 ==
    (Built /\ Len(msg) > 64 /\ Len(zlib_compress(msg)) < Len(msg)) => SentCompressed

C8_Witness ==
    /\ pc = "done"
    /\ Len(msg) = 65
    /\ Len(data) < Len(msg)
    /\ SentCompressed

\* The scenario of C9: b"AB" * 40 sent with a max payload of 20 bytes, finished and
\* fully delivered.
C9_Scenario == msg = MsgAB40 /\ mtu = 27 /\ Built

\* C9 as stated: the scenario produces exactly 4 Data packets with sequence ids
\* 1..4, LastPacket on sequence 4 only, followed by 1 Checksum packet whose digest
\* verifies against the reassembled bytes.
C9_Original_FourPackets ==
    C9_Scenario =>
        /\ Len(packets) = 4
        /\ \A k \in 1..Len(packets) :
             /\ Pkt(k).packet_id = k
             /\ HasFlag(Pkt(k).flags, PacketFlags_LAST_PACKET) <=> (k = 4)
        /\ pc = "done" => Len(wire) = 5 /\ OnWire(5).type = PacketType_CHECKSUM
        /\ ChecksumProcessed => rx_event = "valid"

\* C9 as amended: the 80 bytes compress to 13, so the scenario produces exactly
\* 1 Data packet, with sequence id 1 and the LastPacket and Compressed flags,
\* followed by 1 Checksum packet whose digest verifies against the reassembled
\* bytes.
C9_OneCompressedPacket ==
    C9_Scenario =>
        /\ Len(data) = 13
        /\ Len(packets) = 1
        /\ Pkt(1).packet_id = 1
        /\ Pkt(1).total_packets = 1
        /\ Pkt(1).flags = OrFlag(PacketFlags_COMPRESSED, PacketFlags_LAST_PACKET)
        /\ pc = "done" =>
             /\ Len(wire) = 2
             /\ wire[1] = packets[1]
             /\ OnWire(2).type = PacketType_CHECKSUM
        /\ ChecksumProcessed => rx_event = "valid"

C9_Witness ==
    /\ C9_Scenario
    /\ pc = "done"
    /\ delivered = 2
    /\ rx_event = "valid"

SizeError == [error |-> "Invalid packet size"]

-----------------------------------------------------------------------------
(* C11: acknowledgements on the notify channel *)

\* The bytes of the Ack for sequence_id lo + 256 * hi: type Ack (2), flags
\* LastPacket (1), sequence_id 0, total_count 1, payload length 2, payload lo hi.
AckBytes(lo, hi) == <<2, 1, 0, 0, 1, 0, 2, 0, lo, hi>>

\* A written value that decodes as a Data packet with the AckRequired bit.
IsAckRequiredData(w) ==
    /\ Len(w) >= 8
    /\ w[1] = 1
    /\ (w[2] \div 2) % 2 = 1

\* The Acks owed for the first n written values, in order.
RECURSIVE ExpectedAcks(_)
ExpectedAcks(n) ==
    IF n = 0 THEN <<>>
    ELSE IF IsAckRequiredData(wire[n])
         THEN Append(ExpectedAcks(n - 1), AckBytes(wire[n][3], wire[n][4]))
         ELSE ExpectedAcks(n - 1)

-----------------------------------------------------------------------------
(* C12: which Data packets ask for an acknowledgement *)

\* The sequence_id in the header bytes of a built packet.
SeqIdOf(p) == p[3] + 256 * p[4]

\* The AckRequired bit (0x02) in the flags byte of a built packet.
AckBitOf(p) == (p[2] \div 2) % 2 = 1

\* C12: a Data packet built by the sender carries AckRequired exactly when its
\* sequence_id is a positive multiple of 5, whether or not it is the last packet.
C12_AckRequiredEveryFifth ==
    \A k \in 1..Len(packets) :
        /\ packets[k][1] = PacketType_DATA
        /\ SeqIdOf(packets[k]) = k
        /\ AckBitOf(packets[k]) <=> (k > 0 /\ k % 5 = 0)

\* A transfer of five Data packets: the fifth is the last one and carries
\* Compressed, LastPacket and AckRequired (0x13), the fourth only Compressed.
C12_Witness ==
    /\ Len(packets) = 5
    /\ sent_count = 5
    /\ packets[4][2] = 16
    /\ packets[5][2] = 19

-----------------------------------------------------------------------------
(* C13: the sender does not wait for acknowledgements *)

\* What a transfer of msg under mtu writes when no write fails: the Data packets
\* and then the Checksum packet. It depends on msg and mtu only.
ExpectedWrites ==
    LET c == Compressing(msg)
    IN  Fragmenting(c.data, c.flags, max_payload(mtu)) \o <<checksum_packet(c.data)>>

\* The first n = Len(wire) written packets are the first n of ExpectedWrites.
WrittenAsExpected ==
    LET c == Compressing(msg)
        f == Fragmenting(c.data, c.flags, max_payload(mtu))
    IN  /\ Len(wire) <= Len(f) + 1
        /\ \A j \in 1..Len(wire) :
               wire[j] = IF j <= Len(f) THEN f[j] ELSE checksum_packet(c.data)

\* C13: the sender never waits for an Ack. What it has written is always a prefix
\* of the packets fixed by the message and the MTU, whatever has arrived on the
\* notify channel; and a transfer that is under way ends, either with a write
\* error or with all its Data packets and its Checksum packet written, even if
\* no notification is ever delivered.
C13_NeverWaitsForAck ==
    /\ [](Built => WrittenAsExpected)
    /\ (pc = "transmitting" ~> (pc = "failed" \/ (pc = "done" /\ wire = ExpectedWrites)))

\* A transfer of at least five Data packets is complete although the peripheral
\* has processed none of them and no notification has come in.
C13_Witness ==
    /\ pc = "done"
    /\ Len(packets) >= MAX_IN_FLIGHT
    /\ wire = ExpectedWrites
    /\ delivered = 0
    /\ notified = 0

-----------------------------------------------------------------------------
(* C14: a failed write ends the transfer *)

\* The errors write_data raises.
WriteErrors == {"Not connected", "write failed"}

\* C14: when a channel write fails, the transfer ends at that packet with the
\* write error surfaced: what is on the link is the Data packets written before
\* it, each once and in order, with no Checksum packet; and nothing more of the
\* message is written afterwards.
C14_WriteFailureAborts ==
    /\ [](error # "" => pc = "failed")
    /\ [](pc = "failed" /\ Built =>
            /\ error \in WriteErrors
            /\ Len(wire) = sent_count
            /\ sent_count <= Len(packets)
            /\ wire = SubSeq(packets, 1, sent_count))
    /\ [][pc = "transmitting" /\ pc' = "failed" => wire' = wire /\ error' \in WriteErrors]_vars
    /\ [][pc = "failed" =>
            pc' = "failed" /\ wire' = wire /\ error' = error /\ sent_count' = sent_count]_vars

\* The third write of a longer transfer failed on a live link: two Data packets
\* are on the link and the transfer has ended with the write error.
C14_Witness ==
    /\ pc = "failed"
    /\ connected
    /\ error = "write failed"
    /\ sent_count = 2
    /\ Len(packets) > 3
    /\ Len(wire) = 2

-----------------------------------------------------------------------------
(* C15: the Checksum packet *)

\* The payload bytes of the first n packets on the link, concatenated: what
\* follows the 8 header bytes of each.
RECURSIVE WirePayloadBytes(_)
WirePayloadBytes(n) ==
    IF n = 0 THEN <<>>
    ELSE WirePayloadBytes(n - 1) \o SubSeq(wire[n], HEADER_SIZE + 1, Len(wire[n]))

\* The bytes of a Checksum packet for the CRC register <<high half, low half>>:
\* type 3, flags 0x01, sequence_id 0, total_count 1, payload length 4, and the
\* digest least significant byte first.
ChecksumBytes(c) ==
    <<3, 1, 0, 0, 1, 0, 4, 0, c[2] % 256, c[2] \div 256, c[1] % 256, c[1] \div 256>>

\* C15: the Checksum packet of a transfer has type Checksum, sequence_id 0,
\* total_count 1, flags exactly LastPacket and a 4-byte payload, the little-endian
\* 32-bit digest of the bytes that were fragmented: the compressed bytes when
\* compression was kept. No other packet of the transfer has type Checksum.
C15_ChecksumPacket ==
    /\ \A j \in 1..Len(wire) : wire[j][1] = PacketType_CHECKSUM => (j = Len(wire) /\ pc = "done")
    /\ pc = "done" =>
         /\ WirePayloadBytes(Len(wire) - 1) = data
         /\ wire[Len(wire)] = ChecksumBytes(zlib_crc32(WirePayloadBytes(Len(wire) - 1)))
         /\ data = IF flags = PacketFlags_COMPRESSED THEN zlib_compress(msg) ELSE msg

\* b"A" * 65 went out compressed in several Data packets; the Checksum packet
\* carries 0x228cb30a, the digest of the 12 compressed bytes, as 0a b3 8c 22.
C15_Witness ==
    /\ pc = "done"
    /\ msg = MsgA65
    /\ flags = PacketFlags_COMPRESSED
    /\ Len(packets) > 1
    /\ wire[Len(wire)] = <<3, 1, 0, 0, 1, 0, 4, 0, 10, 179, 140, 34>>

-----------------------------------------------------------------------------
(* C16: the order of the writes *)

\* The total_count in the header bytes of a built packet.
TotalOf(p) == p[5] + 256 * p[6]

\* C16: within a transfer the Data packets reach the channel in sequence order
\* 1, 2, ..., total_count: the j-th packet written is the Data packet with
\* sequence_id j, a step writes at most one packet, after everything written
\* before it, and a finished transfer has written sequence_id 1..total_count,
\* none skipped and none repeated.
C16_SequentialWrites ==
    /\ [](\A j \in 1..Len(wire) :
            wire[j][1] = PacketType_DATA =>
                /\ SeqIdOf(wire[j]) = j
                /\ j <= TotalOf(wire[j]))
    /\ [](pc = "done" =>
            \A j \in 1..(Len(wire) - 1) :
                /\ wire[j][1] = PacketType_DATA
                /\ TotalOf(wire[j]) = Len(wire) - 1)
    /\ [][\/ wire' = wire
          \/ /\ Len(wire') = Len(wire) + 1
             /\ SubSeq(wire', 1, Len(wire)) = wire]_vars

\* A finished transfer of seven Data packets.
C16_Witness ==
    /\ pc = "done"
    /\ Len(wire) = 8
    /\ \A j \in 1..7 : SeqIdOf(wire[j]) = j /\ TotalOf(wire[j]) = 7

-----------------------------------------------------------------------------
(* C17, C18: unknown type and flags values *)

TypeError == [error |-> "not a valid PacketType"]

\* C17: parse_packet fails with an error for every input of at least 7 bytes
\* whose type byte is not one of 0x01..0x04: with the size error when the input
\* has 7 bytes, with the PacketType error when it has 8 or more.
C17_UnknownTypeRejected ==
    (codec_pc = "parsed" /\ Len(codec_pkt) >= 7 /\ codec_pkt[1] \notin {1, 2, 3, 4}) =>
        /\ Raised(codec_out)
        /\ codec_out = IF Len(codec_pkt) = 7 THEN SizeError ELSE TypeError

\* An 8-byte input with type byte 0x05 was parsed and rejected for its type.
C17_Witness ==
    /\ codec_pc = "parsed"
    /\ codec_pkt = <<5, 0, 1, 0, 1, 0, 0, 0>>
    /\ codec_out = TypeError

\* The flags byte has one of the bits 5..7, which no PacketFlags member defines.
UndefinedFlagBits(f) == f >= 32

\* C18: parse_packet fails with an error for every input of at least 7 bytes
\* whose flags byte has a bit set outside the five defined flags.
C18_UnknownFlagsRejected ==
    (codec_pc = "parsed" /\ Len(codec_pkt) >= 7 /\ UndefinedFlagBits(codec_pkt[2])) =>
        Raised(codec_out)

-----------------------------------------------------------------------------
(* C19, C20: packets that fail to decode *)

\* A written value parse_packet accepts: 8 bytes or more and a known type byte.
Decodes(w) == Len(w) >= 8 /\ w[1] \in {1, 2, 3, 4}

\* The packets C19 names: shorter than 7 bytes, or with an unknown type byte.
ShortOrUnknownType(w) == Len(w) < 7 \/ w[1] \notin {1, 2, 3, 4}

\* The reassembly buffer after the first n written values, when the values that
\* do not decode are passed over: Data payloads appended, emptied by a Checksum
\* packet.
RECURSIVE ExpectedBuffer(_)
ExpectedBuffer(n) ==
    IF n = 0 THEN <<>>
    ELSE IF ~Decodes(wire[n]) THEN ExpectedBuffer(n - 1)
    ELSE IF wire[n][1] = 1
         THEN ExpectedBuffer(n - 1) \o SubSeq(wire[n], 9, Len(wire[n]))
    ELSE IF wire[n][1] = 3 THEN <<>>
    ELSE ExpectedBuffer(n - 1)

\* C19: a packet that fails to decode (shorter than 7 bytes, or of unknown type)
\* leaves the reassembly buffer unchanged and emits no Ack, and the packets after
\* it are processed as if it had not been written.
C19_DecodeFailureSkipped ==
    /\ [](received_data = ExpectedBuffer(delivered))
    /\ [][(delivered' = delivered + 1 /\ ShortOrUnknownType(wire[delivered + 1])) =>
            (received_data' = received_data /\ notifications' = notifications)]_vars

\* After a Data packet, a packet of unknown type with the AckRequired bit set
\* was passed over, and the Data packet with sequence_id 5 after it was appended
\* and acknowledged.
C19_Witness ==
    /\ ble_peripheral = "ready"
    /\ delivered = 3
    /\ wire[1] = <<1, 0, 1, 0, 2, 0, 1, 0, 65>>
    /\ wire[2] = <<9, 2, 5, 0, 5, 0, 1, 0, 65>>
    /\ wire[3] = <<1, 2, 5, 0, 5, 0, 1, 0, 65>>
    /\ received_data = <<65, 65>>
    /\ notifications = <<AckBytes(5, 0)>>

\* C20 (as stated): a decode failure inside the packet handler propagates to the
\* handler's caller; it is never absorbed inside the handler.
C20_Original_DecodeFailurePropagates ==
    (delivered > 0 /\ ~Decodes(wire[delivered])) => rx_event = "raised"

\* C20 (amended): a decode failure inside the packet handler is caught inside the
\* handler and logged as an error; it never reaches the handler's caller.
C20_DecodeFailureAbsorbed ==
    /\ (delivered > 0 /\ ~Decodes(wire[delivered])) => rx_event = "error"
    /\ rx_event # "raised"

\* The handler was last called with 3 bytes and returned after logging the error;
\* the buffer still holds the payload of the Data packet before.
C20_Witness ==
    /\ delivered = 2
    /\ wire[2] = <<1, 0, 1>>
    /\ rx_event = "error"
    /\ received_data = <<65>>

-----------------------------------------------------------------------------
(* C21: Ack and Metadata packets at the receiver *)

\* A written value that decodes as an Ack (2) or a Metadata (4) packet.
IsAckOrMetadata(w) == Len(w) >= 8 /\ w[1] \in {2, 4}

\* C21: processing a well-formed Ack or Metadata packet leaves the reassembly
\* buffer unchanged, emits nothing on the notify channel, also when its
\* AckRequired bit is set, and raises no error: it is logged as an unhandled type.
C21_AckMetadataUnhandled ==
    [][(delivered' = delivered + 1 /\ IsAckOrMetadata(wire[delivered + 1])) =>
          /\ received_data' = received_data
          /\ notifications' = notifications
          /\ rx_event' = "unhandled"]_vars

\* After a Data packet, an Ack packet with the AckRequired bit was processed by a
\* peripheral that can notify: the buffer still holds the Data payload and
\* nothing was notified.
C21_Witness ==
    /\ ble_peripheral = "ready"
    /\ delivered = 2
    /\ wire[1] = <<1, 0, 1, 0, 2, 0, 1, 0, 65>>
    /\ wire[2] = <<2, 2, 0, 0, 1, 0, 2, 0, 5, 0>>
    /\ rx_event = "unhandled"
    /\ received_data = <<65>>
    /\ notifications = <<>>

-----------------------------------------------------------------------------
(* C22: what the reassembly buffer holds *)

\* The position, among the first n written values, of the most recent one that
\* decodes as a Checksum packet; 0 when there is none.
RECURSIVE LastChecksum(_)
LastChecksum(n) ==
    IF n = 0 THEN 0
    ELSE IF Decodes(wire[n]) /\ wire[n][1] = 3 THEN n
    ELSE LastChecksum(n - 1)

\* The payloads of the written values lo+1 .. hi that decode as Data packets,
\* concatenated in arrival order.
RECURSIVE DataPayloads(_, _)
DataPayloads(lo, hi) ==
    IF hi <= lo THEN <<>>
    ELSE DataPayloads(lo, hi - 1) \o
         (IF Decodes(wire[hi]) /\ wire[hi][1] = 1
          THEN SubSeq(wire[hi], 9, Len(wire[hi])) ELSE <<>>)

\* C22: after any sequence of delivered packets the reassembly buffer is the
\* concatenation, in arrival order, of the payloads of all well-formed Data
\* packets received since the most recent Checksum packet (or since the start),
\* whatever their sequence_id, total_count and LastPacket flag.
C22_BufferIsArrivalOrder ==
    received_data = DataPayloads(LastChecksum(delivered), delivered)

\* The Data packet with sequence_id 5 arrived first, then the one with
\* sequence_id 1 twice: all three payloads are in the buffer, in that order.
C22_Witness ==
    /\ delivered = 3
    /\ wire[1] = <<1, 2, 5, 0, 5, 0, 1, 0, 65>>
    /\ wire[2] = <<1, 0, 1, 0, 2, 0, 2, 0, 0, 255>>
    /\ wire[3] = <<1, 0, 1, 0, 2, 0, 2, 0, 0, 255>>
    /\ received_data = <<65, 0, 255, 0, 255>>

-----------------------------------------------------------------------------
(* C23: the verdict on a Checksum packet *)

\* A byte string without its trailing zero bytes: two little-endian byte strings
\* hold the same integer exactly when they agree after this.
RECURSIVE StripZeros(_)
StripZeros(b) ==
    IF b # <<>> /\ b[Len(b)] = 0 THEN StripZeros(SubSeq(b, 1, Len(b) - 1)) ELSE b

\* The four bytes of the CRC register <<high half, low half>>, least significant
\* byte first.
CrcBytes(c) == <<c[2] % 256, c[2] \div 256, c[1] % 256, c[1] \div 256>>

\* A written value that decodes as a Checksum packet.
IsChecksum(w) == Len(w) >= 8 /\ w[1] = 3

\* C23: on a Checksum packet the receiver reports success exactly when the
\* 32-bit digest of the bytes in the buffer equals the little-endian integer in
\* the packet's payload, and a mismatch otherwise.
C23_VerdictIsDigestEquality ==
    [][(delivered' = delivered + 1 /\ IsChecksum(wire[delivered + 1])) =>
          LET w == wire[delivered + 1]
              same == StripZeros(SubSeq(w, 9, Len(w)))
                        = StripZeros(CrcBytes(zlib_crc32(received_data)))
          IN  rx_event' = IF same THEN "valid" ELSE "mismatch"]_vars

\* The Data packet of b"A" arrived twice before the Checksum packet carrying the
\* digest of b"A": the verdict is a mismatch.
C23_Witness ==
    /\ delivered = 3
    /\ wire[1] = <<1, 0, 1, 0, 2, 0, 1, 0, 65>>
    /\ wire[2] = <<1, 0, 1, 0, 2, 0, 1, 0, 65>>
    /\ wire[3] = <<3, 1, 0, 0, 1, 0, 4, 0, 139, 158, 217, 211>>
    /\ rx_event = "mismatch"

-----------------------------------------------------------------------------
(* C24: the compression decision *)

\* The Compressed bit (0x10) in the flags byte of a built packet.
CompressedBitOf(p) == (p[2] \div 16) % 2 = 1

\* The message is longer than 64 bytes and its compressed form is strictly smaller.
WorthCompressing == Len(msg) > 64 /\ Len(zlib_compress(msg)) < Len(msg)

\* The payload bytes of the first n built packets, concatenated.
RECURSIVE BuiltPayloadBytes(_)
BuiltPayloadBytes(n) ==
    IF n = 0 THEN <<>>
    ELSE BuiltPayloadBytes(n - 1) \o SubSeq(packets[n], 9, Len(packets[n]))

\* C24: the sender fragments the compressed form exactly when the message is
\* longer than 64 bytes and its compressed form is strictly smaller, and then
\* every Data packet carries Compressed; otherwise it fragments the original
\* bytes and no Data packet carries Compressed.
C24_CompressionDecision ==
    Built =>
        /\ BuiltPayloadBytes(Len(packets)) = IF WorthCompressing THEN zlib_compress(msg) ELSE msg
        /\ \A k \in 1..Len(packets) : CompressedBitOf(packets[k]) <=> WorthCompressing
        /\ \A j \in 1..Len(wire) :
               wire[j][1] = PacketType_DATA => (CompressedBitOf(wire[j]) <=> WorthCompressing)

\* A 65-byte message whose compressed form also has 65 bytes went out as it was,
\* in several Data packets without the Compressed bit.
C24_Witness ==
    /\ pc = "done"
    /\ msg = MsgE65
    /\ Len(zlib_compress(msg)) = 65
    /\ Len(packets) > 1
    /\ BuiltPayloadBytes(Len(packets)) = msg
    /\ \A k \in 1..Len(packets) : ~CompressedBitOf(packets[k])

-----------------------------------------------------------------------------
(* C25: the layout build_packet produces *)

-----------------------------------------------------------------------------
(* C26: payload_length is not checked *)

\* The payload_length field of a written value does not state the number of
\* bytes after the header; a value too short to hold the field cannot state it.
LengthMismatch(w) == Len(w) < 8 \/ w[7] + 256 * w[8] # Len(w) - 8

-----------------------------------------------------------------------------
(* C27: the digest does not depend on the fragmentation *)

\* The bytes the digest of a message is taken over: its compressed form when
\* that is kept, else the message. The MTU does not enter.
DigestInput(m) ==
    IF Len(m) > 64 /\ Len(zlib_compress(m)) < Len(m) THEN zlib_compress(m) ELSE m

\* C27: the Checksum packet's payload is fixed by the message alone, the same
\* under every MTU, and it is the digest of the concatenation of the Data
\* payloads of the transfer.
C27_DigestIndependentOfMtu ==
    pc = "done" =>
        LET payload == SubSeq(wire[Len(wire)], 9, Len(wire[Len(wire)]))
        IN  /\ payload = CrcBytes(zlib_crc32(DigestInput(msg)))
            /\ payload = CrcBytes(zlib_crc32(WirePayloadBytes(Len(wire) - 1)))

\* b"A" * 64 went out in 32 Data packets of 2 bytes; the Checksum packet carries
\* the digest of the 64 bytes.
C27_Witness ==
    /\ pc = "done"
    /\ msg = MsgA64
    /\ mtu = 9
    /\ Len(wire) = 33
    /\ SubSeq(wire[33], 9, 12) = CrcBytes(zlib_crc32(MsgA64))

-----------------------------------------------------------------------------
(* C28: a disconnect during a transfer *)

\* C28: once the disconnect has been handled during a transfer, no packet of the
\* transfer is written any more, what was written stays as it is, and the
\* transfer does not complete: it ends with the channel error of its next write.
C28_DisconnectAborts ==
    /\ [][~connected => (wire' = wire /\ sent_count' = sent_count /\ ~connected')]_vars
    /\ [][(~connected /\ pc = "transmitting") =>
            (pc' = "transmitting" \/ (pc' = "failed" /\ error' = "Not connected"))]_vars
    /\ ((~connected /\ pc = "transmitting") ~> (pc = "failed" /\ error = "Not connected"))

\* The link went down after two of several Data packets: the transfer has ended
\* with the channel error and the two packets are all that was written.
C28_Witness ==
    /\ ~connected
    /\ pc = "failed"
    /\ error = "Not connected"
    /\ sent_count = 2
    /\ Len(packets) > 3
    /\ wire = SubSeq(packets, 1, 2)

-----------------------------------------------------------------------------
(* server.py: write_callback called from two threads at once. The steps are *)
(* the points at which the interpreter may switch threads inside            *)
(* `received_data += payload` (load the global, extend the object in place, *)
(* store the global) and between the statements of the Checksum branch.     *)

Contexts == {1, 2}

\* The values the two calls are given.
RacePackets ==
    {build_packet(PacketType_DATA, PacketFlags_NONE, 1, 2, <<66>>),
     build_packet(PacketType_DATA, PacketFlags_ACK_REQUIRED, 5, 5, <<67>>),
     build_packet(PacketType_CHECKSUM, PacketFlags_LAST_PACKET, 0, 1,
                  to_bytes4(compute_checksum(<<65>>))),
     build_packet(PacketType_ACK, PacketFlags_LAST_PACKET, 0, 1, PackH(5)),
     <<1, 0, 1>>}

\* What the buffer holds when the two calls start.
RaceBuffers == {<<>>, <<65>>}

InitRace ==
    /\ retry_task = NoRetry
    /\ pc = "off"
    /\ connected = FALSE
    /\ _client = "None"
    /\ msg = <<>>
    /\ mtu = 0
    /\ data = <<>>
    /\ flags = PacketFlags_NONE
    /\ packets = <<>>
    /\ sent_count = 0
    /\ error = ""
    /\ wire = <<>>
    /\ delivered = 0
    /\ notifications = <<>>
    /\ ble_peripheral = "ready"
    /\ rx_event = "none"
    /\ notified = 0
    /\ client_log = "none"
    /\ tasks = NoTasks
    /\ CodecIdle
    /\ \E b \in RaceBuffers, v \in [Contexts -> RacePackets] :
         /\ received_data = b
         /\ handlers = [heap    |-> <<b>>,
                        buf     |-> 1,
                        initial |-> b,
                        ctx     |-> [t \in Contexts |->
                                       [pc |-> "called", value |-> v[t], ref |-> 0]]]

\* One step of context t: its new position and reference, the objects and the
\* global after the step.
HandlerStep(t, new_pc, new_ref, new_heap, new_buf) ==
    /\ handlers' = [handlers EXCEPT !.heap = new_heap,
                                    !.buf = new_buf,
                                    !.ctx[t].pc = new_pc,
                                    !.ctx[t].ref = new_ref]
    /\ received_data' = new_heap[new_buf]

\* try: packet_info = parse_packet(bytes(value)); the branch on its type.
HandlerParse(t) ==
    LET c == handlers.ctx[t]
        packet_info == parse_packet(c.value)
    IN  /\ c.pc = "called"
        /\ IF Raised(packet_info)
           THEN /\ HandlerStep(t, "returned", 0, handlers.heap, handlers.buf)
                /\ rx_event' = "error"
           ELSE IF packet_info.type = PacketType_DATA
           THEN /\ HandlerStep(t, "load", 0, handlers.heap, handlers.buf)
                /\ UNCHANGED rx_event
           ELSE IF packet_info.type = PacketType_CHECKSUM
           THEN /\ HandlerStep(t, "verify", 0, handlers.heap, handlers.buf)
                /\ UNCHANGED rx_event
           ELSE /\ HandlerStep(t, "returned", 0, handlers.heap, handlers.buf)
                /\ rx_event' = "unhandled"
        /\ UNCHANGED <<clientVars, linkVars, ble_peripheral, codecVars, inboundVars, tasks, transportVars, retryVars>>

\* received_data += ...: the global is read.
HandlerLoad(t) ==
    /\ handlers.ctx[t].pc = "load"
    /\ HandlerStep(t, "iadd", handlers.buf, handlers.heap, handlers.buf)
    /\ UNCHANGED <<clientVars, linkVars, ble_peripheral, rx_event, codecVars, inboundVars,
                   tasks, transportVars, retryVars>>

\* received_data += ...: the bytearray that was read is extended in place.
HandlerExtend(t) ==
    LET c == handlers.ctx[t]
    IN  /\ c.pc = "iadd"
        /\ HandlerStep(t, "store", c.ref,
                       [handlers.heap EXCEPT ![c.ref] = @ \o parse_packet(c.value).payload],
                       handlers.buf)
        /\ UNCHANGED <<clientVars, linkVars, ble_peripheral, rx_event, codecVars,
                       inboundVars, tasks, transportVars, retryVars>>

\* received_data += ...: the global is bound to the extended bytearray; then the
\* Ack is sent if the packet asks for one.
HandlerStore(t) ==
    LET c == handlers.ctx[t]
        packet_info == parse_packet(c.value)
    IN  /\ c.pc = "store"
        /\ HandlerStep(t, "returned", 0, handlers.heap, c.ref)
        /\ notifications' =
               IF HasFlag(packet_info.flags, PacketFlags_ACK_REQUIRED)
               THEN send_notification(notifications, ack_packet(packet_info))
               ELSE notifications
        /\ rx_event' = "data"
        /\ UNCHANGED <<clientVars, wire, delivered, ble_peripheral, codecVars, inboundVars,
                       tasks, transportVars, retryVars>>

\* valid = verify_checksum(received_data, received_checksum), and its log line.
HandlerVerify(t) ==
    LET c == handlers.ctx[t]
    IN  /\ c.pc = "verify"
        /\ HandlerStep(t, "reset", 0, handlers.heap, handlers.buf)
        /\ rx_event' = IF verify_checksum(handlers.heap[handlers.buf],
                                          int_from_bytes(parse_packet(c.value).payload))
                       THEN "valid" ELSE "mismatch"
        /\ UNCHANGED <<clientVars, linkVars, ble_peripheral, codecVars, inboundVars, tasks, transportVars, retryVars>>

\* received_data = bytearray(): the global is bound to a new, empty object.
HandlerReset(t) ==
    /\ handlers.ctx[t].pc = "reset"
    /\ HandlerStep(t, "returned", 0, Append(handlers.heap, <<>>), Len(handlers.heap) + 1)
    /\ UNCHANGED <<clientVars, linkVars, ble_peripheral, rx_event, codecVars, inboundVars,
                   tasks, transportVars, retryVars>>

NextRace ==
    \E t \in Contexts :
        \/ HandlerParse(t)
        \/ HandlerLoad(t)
        \/ HandlerExtend(t)
        \/ HandlerStore(t)
        \/ HandlerVerify(t)
        \/ HandlerReset(t)

SpecRace == InitRace /\ [][NextRace]_vars

-----------------------------------------------------------------------------
(* C29: two deliveries processed at once *)

\* The buffer after write_callback has run alone on value w, from buffer b.
AfterAlone(b, w) ==
    IF ~Decodes(w) THEN b
    ELSE IF w[1] = 1 THEN b \o SubSeq(w, 9, Len(w))
    ELSE IF w[1] = 3 THEN <<>>
    ELSE b

BothReturned == \A t \in Contexts : handlers.ctx[t].pc = "returned"

-----------------------------------------------------------------------------
(* client.py: two optimized_transfer coroutines started on one transport,   *)
(* e.g. with asyncio.gather. A coroutine gives up the event loop at each    *)
(* `await transport.write_data(...)` and `await asyncio.sleep(0.01)`.       *)

Senders == {1, 2}

\* The messages of the two transfers and the MTUs the transport may report.
TaskMsgs == {<<>>, <<65>>, <<65, 66, 67>>, <<68, 69, 70, 71, 72>>}
TaskMTUs == {9, 10}

\* The coroutine's locals when it reaches the send loop: data, packets and
\* sent_count; `written` are the positions on the link of its own writes.
TaskStart(m, t) ==
    LET c == Compressing(m)
    IN  [pc         |-> "transmitting",
         data       |-> c.data,
         packets    |-> Fragmenting(c.data, c.flags, max_payload(t)),
         sent_count |-> 0,
         error      |-> "",
         written    |-> {}]

InitTwoSends ==
    /\ retry_task = NoRetry
    /\ pc = "off"
    /\ connected = TRUE
    /\ _client = "BleakClient"
    /\ msg = <<>>
    /\ mtu = 0
    /\ data = <<>>
    /\ flags = PacketFlags_NONE
    /\ packets = <<>>
    /\ sent_count = 0
    /\ error = ""
    /\ wire = <<>>
    /\ delivered = 0
    /\ notifications = <<>>
    /\ received_data = <<>>
    /\ ble_peripheral = "ready"
    /\ rx_event = "none"
    /\ notified = 0
    /\ client_log = "none"
    /\ handlers = NoHandlers
    /\ CodecIdle
    /\ \E m \in [Senders -> TaskMsgs], t \in TaskMTUs :
         tasks = [i \in Senders |-> TaskStart(m[i], t)]

\* await transport.write_data(pkt) in coroutine i: the packet goes on the link,
\* or the write raises and the coroutine ends with that error.
TaskWriteData(i, pkt, ok, next_pc, count) ==
    IF ~connected
    THEN /\ tasks' = [tasks EXCEPT ![i].pc = "failed", ![i].error = "Not connected"]
         /\ UNCHANGED wire
    ELSE IF ~ok
    THEN /\ tasks' = [tasks EXCEPT ![i].pc = "failed", ![i].error = "write failed"]
         /\ UNCHANGED wire
    ELSE /\ wire' = Append(wire, pkt)
         /\ tasks' = [tasks EXCEPT ![i].pc = next_pc,
                                   ![i].sent_count = count,
                                   ![i].written = @ \cup {Len(wire) + 1}]

\* One iteration of the send loop of coroutine i.
TaskWritePacket(i) ==
    LET k == tasks[i]
    IN  /\ k.pc = "transmitting"
        /\ k.sent_count < Len(k.packets)
        /\ \E ok \in BOOLEAN :
             TaskWriteData(i, k.packets[k.sent_count + 1], ok, "transmitting",
                           k.sent_count + 1)
        /\ UNCHANGED <<clientVars, delivered, notifications, serverVars, codecVars,
                       inboundVars, handlers, transportVars, retryVars>>

\* After the loop of coroutine i: its Checksum packet.
TaskSendChecksum(i) ==
    LET k == tasks[i]
    IN  /\ k.pc = "transmitting"
        /\ k.sent_count = Len(k.packets)
        /\ \E ok \in BOOLEAN :
             TaskWriteData(i, checksum_packet(k.data), ok, "done", k.sent_count)
        /\ UNCHANGED <<clientVars, delivered, notifications, serverVars, codecVars,
                       inboundVars, handlers, transportVars, retryVars>>

NextTwoSends == \E i \in Senders : TaskWritePacket(i) \/ TaskSendChecksum(i)

SpecTwoSends == InitTwoSends /\ [][NextTwoSends]_vars

-----------------------------------------------------------------------------
(* C30: two sends on one channel *)

\* The positions on the link of the writes of one coroutine have no gap.
Contiguous(W) == \A a \in W, b \in W : \A x \in a..b : x \in W

\* C30: when two sends run concurrently on the same channel, the Data packets
\* and the Checksum packet of each message form a contiguous run on the link,
\* never interleaved with packets of the other message.
C30_OneMessageAtATime ==
    \A i \in Senders : Contiguous(tasks[i].written)

-----------------------------------------------------------------------------
\* Several invocations of optimized_transfer, one after the other, against one
\* server process: `received_data` is a module global of server.py and lives as
\* long as the server does, while every invocation starts from fresh locals.

MaxSessionWire == 4

SessionMsgs == {<<>>, <<65>>, <<65, 66, 67>>, MsgA65}

SessionMTUs == {9}

\* optimized_transfer is entered while fewer than MaxSessionWire packets have
\* been written so far.
StartSession ==
    /\ pc = "idle"
    /\ Len(wire) < MaxSessionWire
    /\ \E m \in SessionMsgs, t \in SessionMTUs : BeginTransfer(m, t)

\* Mutant of NextInvocation: the send counter of the previous call survives.
NextInvocation_KeepsCount ==
    /\ pc \in {"done", "failed"}
    /\ pc' = "idle"
    /\ connected' = TRUE
    /\ _client' = "BleakClient"
    /\ msg' = <<>>
    /\ mtu' = 0
    /\ data' = <<>>
    /\ flags' = PacketFlags_NONE
    /\ packets' = <<>>
    /\ error' = ""
    /\ UNCHANGED <<sent_count, linkVars, serverVars, codecVars, inboundVars, concVars, retryVars>>

\* The invocation has returned or raised; the caller connects again and is about
\* to call optimized_transfer once more.  Nothing of the previous call is kept:
\* every name it assigned was a local.
NextInvocation ==
    /\ pc \in {"done", "failed"}
    /\ pc' = "idle"
    /\ connected' = TRUE
    /\ _client' = "BleakClient"
    /\ msg' = <<>>
    /\ mtu' = 0
    /\ data' = <<>>
    /\ flags' = PacketFlags_NONE
    /\ packets' = <<>>
    /\ sent_count' = 0
    /\ error' = ""
    /\ UNCHANGED <<linkVars, serverVars, codecVars, inboundVars, concVars, retryVars>>

NextSessions ==
    \/ StartSession
    \/ WritePacket
    \/ SendChecksum
    \/ Disconnect
    \/ Deliver
    \/ NextInvocation

SpecSessions == Init /\ [][NextSessions]_vars

\* The send loop and the final write go on as long as the event loop runs them:
\* each `await` returns or raises.
SpecSessionsLive ==
    SpecSessions /\ WF_vars(WritePacket) /\ WF_vars(SendChecksum)

\* The payload of the Checksum packet at position c of the link.
ChecksumOf(c) == SubSeq(wire[c], 9, Len(wire[c]))

\* Position of the first packet of the transfer that wrote the Checksum packet at
\* position c: the Checksum packet itself for the empty message, else the Data
\* packet total_packets places before it.
OwnFirst(c) ==
    IF c = 1 \/ ChecksumOf(c) = to_bytes4(compute_checksum(<<>>))
    THEN c
    ELSE c - TotalOf(wire[c - 1])

\* The bytes that transfer sent, and the bytes left in front of them by
\* transfers that never wrote their Checksum packet.
OwnBytes(c) == DataPayloads(OwnFirst(c) - 1, c - 1)

StaleBytes(c) == DataPayloads(LastChecksum(c - 1), OwnFirst(c) - 1)

\* C31: the receiver's buffer changes only when a packet is processed (a
\* disconnect, an abort or a new invocation leaves it alone), so it holds every
\* Data payload since the last Checksum packet, stale ones included; the next
\* Checksum packet is verified against stale plus own bytes and empties the
\* buffer; a transfer with no stale bytes in front of it verifies.
C31_StaleBytesSpoilOneTransfer ==
    /\ [][delivered' = delivered => received_data' = received_data]_vars
    /\ [](received_data = DataPayloads(LastChecksum(delivered), delivered))
    /\ [][(delivered' = delivered + 1 /\ IsChecksum(wire[delivered + 1])) =>
            LET c     == delivered + 1
                stale == StaleBytes(c)
                own   == OwnBytes(c)
                same  == StripZeros(ChecksumOf(c))
                           = StripZeros(CrcBytes(zlib_crc32(stale \o own)))
            IN  /\ received_data = stale \o own
                /\ rx_event' = (IF same THEN "valid" ELSE "mismatch")
                /\ received_data' = <<>>
                /\ stale = <<>> => rx_event' = "valid"]_vars

\* An aborted transfer left one Data packet of two; the complete transfer after
\* it failed verification, the one after that verified.
C31_Witness ==
    /\ Len(wire) = 5
    /\ delivered = 5
    /\ wire[1][1] = 1 /\ SeqIdOf(wire[1]) = 1 /\ TotalOf(wire[1]) = 2
    /\ Len(wire[1]) > 8
    /\ wire[2][1] = 1 /\ SeqIdOf(wire[2]) = 1
    /\ IsChecksum(wire[3])
    /\ StaleBytes(3) # <<>>
    /\ StripZeros(ChecksumOf(3)) # StripZeros(CrcBytes(zlib_crc32(StaleBytes(3) \o OwnBytes(3))))
    /\ IsChecksum(wire[5])
    /\ StaleBytes(5) = <<>>
    /\ OwnBytes(5) # <<>>
    /\ rx_event = "valid"
    /\ received_data = <<>>
    /\ ~connected

-----------------------------------------------------------------------------
\* The steps an invocation of optimized_transfer may take, as pairs of positions.
PhaseOrder ==
    {<<"idle", "transmitting">>, <<"idle", "failed">>,
     <<"transmitting", "transmitting">>, <<"transmitting", "done">>,
     <<"transmitting", "failed">>, <<"done", "idle">>, <<"failed", "idle">>}

-----------------------------------------------------------------------------
\* One transfer against a server whose peripheral may or may not be able to
\* notify: `ble_peripheral` is None until main() has built it, and
\* send_notification gives up when the notify characteristic is not found or
\* sending raises.

InitPeripheral ==
    /\ retry_task = NoRetry
    /\ pc = "idle"
    /\ connected = TRUE
    /\ _client = "BleakClient"
    /\ msg = <<>>
    /\ mtu = 0
    /\ data = <<>>
    /\ flags = PacketFlags_NONE
    /\ packets = <<>>
    /\ sent_count = 0
    /\ error = ""
    /\ wire = <<>>
    /\ delivered = 0
    /\ notifications = <<>>
    /\ received_data = <<>>
    /\ ble_peripheral \in PeripheralStates
    /\ rx_event = "none"
    /\ notified = 0
    /\ client_log = "none"
    /\ handlers = NoHandlers
    /\ tasks = NoTasks
    /\ CodecIdle

SpecPeripheral == InitPeripheral /\ [][Next]_vars

\* The Acks for sequence ids 5, 10, ..., 5 * n, in that order.
AcksUpTo(n) == [k \in 1..n |-> AckBytes((5 * k) % 256, (5 * k) \div 256)]

\* How many of the message's Data packets have been processed.
DataProcessed == Min(delivered, Len(packets))

-----------------------------------------------------------------------------
\* C34: when the Ack for a Data packet cannot be emitted, the payload is appended
\* all the same, the handler returns as for any Data packet, nothing is emitted,
\* and the packets after it are processed as if the Ack had gone out: the buffer
\* is what the processed packets make it, and a Checksum packet is verified
\* against it.
C34_AckFailureIsHarmless ==
    /\ [][(delivered' = delivered + 1 /\ IsAckRequiredData(wire[delivered + 1])
            /\ ble_peripheral # "ready") =>
            LET w == wire[delivered + 1]
            IN  /\ received_data' = received_data \o SubSeq(w, 9, Len(w))
                /\ notifications' = notifications
                /\ rx_event' = "data"]_vars
    /\ [](rx_event # "raised")
    /\ [](received_data = ExpectedBuffer(delivered))
    /\ [][(delivered' = delivered + 1 /\ IsChecksum(wire[delivered + 1])) =>
            rx_event' = IF StripZeros(ChecksumOf(delivered + 1))
                             = StripZeros(CrcBytes(zlib_crc32(ExpectedBuffer(delivered))))
                        THEN "valid" ELSE "mismatch"]_vars

\* The notify characteristic is missing; the Data packet with sequence_id 5 and
\* AckRequired was processed, then the Checksum packet with the digest of its
\* payload, which verified; nothing was emitted.
C34_Witness ==
    /\ ble_peripheral = "no_char"
    /\ delivered = 2
    /\ wire[1] = <<1, 2, 5, 0, 5, 0, 1, 0, 65>>
    /\ wire[2] = build_packet(PacketType_CHECKSUM, PacketFlags_LAST_PACKET, 0, 1,
                              to_bytes4(compute_checksum(<<65>>)))
    /\ rx_event = "valid"
    /\ notifications = <<>>
    /\ received_data = <<>>

-----------------------------------------------------------------------------
\* One transfer with a max payload of one byte: short messages, and 65536 bytes
\* that compression does not shrink, which need 65536 Data packets.

LargeMsgs == ShortMsgs \cup {MsgRand64K}

LargeMTUs == {8}

StartLarge ==
    /\ pc = "idle"
    /\ \E m \in LargeMsgs, t \in LargeMTUs : BeginTransfer(m, t)

NextLarge ==
    \/ StartLarge
    \/ WritePacket
    \/ SendChecksum
    \/ Disconnect
    \/ Deliver

SpecLarge == Init /\ [][NextLarge]_vars

\* C35: every written value is a sequence of bytes; a written Data packet has
\* the sequence_id of its position in the message and the number of Data packets
\* as total_count, both between 1 and 65535; and when the bytes to send need
\* more than 65535 Data packets, the transfer has failed in the build loop with
\* nothing built and nothing written.
C35_NoWrapAround ==
    /\ \A j \in 1..Len(wire) :
          /\ \A k \in 1..Len(wire[j]) : wire[j][k] \in 0..255
          /\ wire[j][1] = PacketType_DATA =>
                /\ SeqIdOf(wire[j]) = j
                /\ TotalOf(wire[j]) = Len(packets)
                /\ j \in 1..65535 /\ Len(packets) \in 1..65535
    /\ (mtu > 7 /\ Len(Compressing(msg).data) > 65535 * max_payload(mtu)) =>
          /\ pc = "failed"
          /\ error = "struct.error"
          /\ packets = <<>>
          /\ wire = <<>>

\* The 65536-byte message at MTU 8: build_packet raised on the first Data packet.
C35_Witness ==
    /\ Len(msg) = 65536
    /\ mtu = 8
    /\ data = msg
    /\ pc = "failed"
    /\ error = "struct.error"
    /\ wire = <<>>

-----------------------------------------------------------------------------
(* transport.py on its own: connect, disconnect events and write_data calls *)

MaxTransportWrites == 3

\* The values write_data is called with.
TransportPackets ==
    {build_packet(PacketType_DATA, PacketFlags_LAST_PACKET, 1, 1, <<65>>),
     build_packet(PacketType_CHECKSUM, PacketFlags_LAST_PACKET, 0, 1,
                  to_bytes4(compute_checksum(<<65>>)))}

\* How `await self._client.connect(timeout=timeout)` ends: it returns True, it
\* returns False, or it raises.
ConnectOutcomes == {"connected", "refused", "raised"}

\* BleTransport.is_connected()
is_connected == _client # "None" /\ connected

InitTransport ==
    /\ retry_task = NoRetry
    /\ pc = "idle"
    /\ connected = FALSE
    /\ _client = "None"
    /\ msg = <<>>
    /\ mtu = 0
    /\ data = <<>>
    /\ flags = PacketFlags_NONE
    /\ packets = <<>>
    /\ sent_count = 0
    /\ error = ""
    /\ wire = <<>>
    /\ delivered = 0
    /\ notifications = <<>>
    /\ received_data = <<>>
    /\ ble_peripheral = "ready"
    /\ rx_event = "none"
    /\ notified = 0
    /\ client_log = "none"
    /\ handlers = NoHandlers
    /\ tasks = NoTasks
    /\ CodecIdle

\* connect() up to its await: nothing to do when already connected; otherwise a
\* new BleakClient, not yet connected, is stored (when no device is found the
\* call returns False and changes nothing).
ConnectBegin ==
    /\ ~is_connected
    /\ \E found \in BOOLEAN :
         _client' = IF found THEN "BleakClient" ELSE _client
    /\ UNCHANGED <<clientVars, linkVars, serverVars, codecVars, inboundVars, concVars, retryVars>>

\* connect() after its await: True leaves the connected client in place, False or
\* an exception set self._client = None.
ConnectEnd ==
    /\ _client = "BleakClient"
    /\ ~connected
    /\ \E outcome \in ConnectOutcomes :
         IF outcome = "connected"
         THEN /\ connected' = TRUE
              /\ UNCHANGED _client
         ELSE /\ _client' = "None"
              /\ UNCHANGED connected
    /\ UNCHANGED <<pc, msg, mtu, data, flags, packets, sent_count, error, linkVars,
                   serverVars, codecVars, inboundVars, concVars, retryVars>>

\* A caller awaits transport.write_data(value): pc is "done" when the call
\* returned and "failed" when it raised.
WriteCall ==
    /\ Len(wire) < MaxTransportWrites
    /\ \E p \in TransportPackets, ok \in BOOLEAN : write_data(p, ok, "done")
    /\ UNCHANGED <<connected, msg, mtu, data, flags, packets, sent_count, delivered,
                   notifications, serverVars, codecVars, inboundVars, concVars,
                   transportVars, retryVars>>

NextTransport ==
    \/ ConnectBegin
    \/ ConnectEnd
    \/ Disconnect
    \/ WriteCall

SpecTransport == InitTransport /\ [][NextTransport]_vars

\* C36: a write_data call made while is_connected() is false raises "Not
\* connected" and leaves the link alone, so the link is written only while
\* connected; a disconnect event makes is_connected() false, and it becomes true
\* again only when a connect that was under way succeeds.
C36_NotConnectedNoWrite ==
    /\ [](connected => _client = "BleakClient")
    /\ [][wire' # wire => is_connected]_vars
    /\ [][(~is_connected /\ (pc' # pc \/ error' # error \/ wire' # wire)) =>
            /\ pc' = "failed"
            /\ error' = "Not connected"
            /\ wire' = wire]_vars
    /\ [][(is_connected /\ ~is_connected') => _client' = "None"]_vars
    /\ [][(~is_connected /\ is_connected') =>
            /\ _client = "BleakClient"
            /\ _client' = "BleakClient"]_vars

\* The transport was connected and wrote one value; then the link went down
\* and the next write_data raised without writing.
C36_Witness ==
    /\ Len(wire) = 1
    /\ _client = "None"
    /\ ~connected
    /\ pc = "failed"
    /\ error = "Not connected"

-----------------------------------------------------------------------------
(* client0.py: try_connect_with_retry *)

MAX_RETRIES == 3

MaxRetriesArg == 5

\* The values of the argument max_retries: the default and everything from 0
\* (no attempt at all) up to MaxRetriesArg.
RetryArgs == {MAX_RETRIES} \cup 0..MaxRetriesArg

address_types == <<"public", "random">>

\* How `await client.connect(timeout=timeout)` ends: it returns, or it raises
\* asyncio.TimeoutError, BleakError or another Exception.
AttemptOutcomes == {"returns", "TimeoutError", "BleakError", "Exception"}

\* Mutant of backoff_delay: no upper limit.
backoff_delay_Uncapped(retries) == 2 ^ retries

\* delay = min(2 ** retries, 10)
backoff_delay(retries) == Min(2 ^ retries, 10)

\* The call: locals set up, and the loops entered. With max_retries <= 0 neither
\* while loop runs its body and the function returns False at once.
RetryCall ==
    /\ retry_task.pc = "idle"
    /\ \E n \in RetryArgs :
         retry_task' =
            IF n > 0
            THEN [retry_task EXCEPT !.pc = "attempt", !.max_retries = n,
                                    !.address_type = address_types[1], !.retries = 0]
            ELSE [retry_task EXCEPT !.pc = "returned", !.max_retries = n,
                                    !.address_type = address_types[2],
                                    !.result = "False"]
    /\ UNCHANGED <<clientVars, linkVars, serverVars, codecVars, inboundVars, concVars,
                   transportVars>>

\* One pass of the while body up to `retries += 1` and the test that follows.
RetryAttempt ==
    /\ retry_task.pc = "attempt"
    /\ \E outcome \in AttemptOutcomes :
         LET t       == retry_task
             entry   == [op |-> "connect", address_type |-> t.address_type,
                         ok |-> outcome = "returns", delay |-> 0]
             retries == t.retries + 1
         IN  retry_task' =
               IF outcome = "returns"
               THEN [t EXCEPT !.pc = "returned", !.result = "True",
                              !.log = Append(t.log, entry)]
               ELSE IF retries < t.max_retries
               THEN [t EXCEPT !.pc = "sleep", !.retries = retries,
                              !.last_error = outcome, !.log = Append(t.log, entry)]
               ELSE IF t.address_type = address_types[1]
               THEN [t EXCEPT !.pc = "attempt", !.retries = 0,
                              !.address_type = address_types[2],
                              !.last_error = outcome, !.log = Append(t.log, entry)]
               ELSE [t EXCEPT !.pc = "returned", !.retries = retries,
                              !.result = "False",
                              !.last_error = outcome, !.log = Append(t.log, entry)]
    /\ UNCHANGED <<clientVars, linkVars, serverVars, codecVars, inboundVars, concVars,
                   transportVars>>

\* await asyncio.sleep(delay)
RetrySleep ==
    /\ retry_task.pc = "sleep"
    /\ retry_task' =
          [retry_task EXCEPT
              !.pc = "attempt",
              !.log = Append(retry_task.log,
                             [op |-> "sleep", address_type |-> retry_task.address_type,
                              ok |-> FALSE,
                              delay |-> backoff_delay(retry_task.retries)])]
    /\ UNCHANGED <<clientVars, linkVars, serverVars, codecVars, inboundVars, concVars,
                   transportVars>>

NextRetry == RetryCall \/ RetryAttempt \/ RetrySleep

\* Every awaited connect and every sleep comes back (connect has a timeout).
SpecRetry == Init /\ [][NextRetry]_vars /\ WF_vars(NextRetry)

\* The connect attempts in the log made with address type T, and the failed
\* ones among the first n entries.
AttemptsOf(T) ==
    {i \in 1..Len(retry_task.log) :
        retry_task.log[i].op = "connect" /\ retry_task.log[i].address_type = T}

FailedOf(T, n) == {i \in AttemptsOf(T) : i <= n /\ ~retry_task.log[i].ok}

\* What holds of the log of a call at every moment.
RetryLogOk ==
    LET t   == retry_task
        log == t.log
        max == IF t.max_retries > 0 THEN t.max_retries ELSE 0
    IN  \* at most max_retries attempts per address type, public before random
        /\ \A T \in {"public", "random"} : Cardinality(AttemptsOf(T)) <= max
        /\ Cardinality(AttemptsOf("public") \cup AttemptsOf("random")) <= 2 * max
        /\ \A i \in AttemptsOf("random"), j \in AttemptsOf("public") : j < i
        \* a successful attempt is the last thing done, and the result is True
        /\ \A i \in 1..Len(log) :
              (log[i].op = "connect" /\ log[i].ok) =>
                  i = Len(log) /\ t.pc = "returned" /\ t.result = "True"
        /\ t.result = "True" => (log # <<>> /\ log[Len(log)].ok)
        \* False only after max_retries failed attempts of each type
        /\ t.result = "False" =>
              /\ \A T \in {"public", "random"} : Cardinality(FailedOf(T, Len(log))) = max
              /\ \A i \in 1..Len(log) : ~log[i].ok
        /\ (t.pc = "returned") <=> (t.result # "none")
        \* a sleep follows a failed attempt that is not the last of its type, lasts
        \* min(2^k, 10) after the k-th failure, and the same type is tried next
        /\ \A i \in 1..Len(log) :
              log[i].op = "sleep" =>
                  LET T == log[i].address_type
                      k == Cardinality(FailedOf(T, i))
                  IN  /\ i > 1
                      /\ log[i - 1].op = "connect" /\ ~log[i - 1].ok
                      /\ log[i - 1].address_type = T
                      /\ k \in 1..(max - 1)
                      /\ log[i].delay = Min(2 ^ k, 10)
                      /\ i < Len(log) =>
                            (log[i + 1].op = "connect" /\ log[i + 1].address_type = T)
        \* no two attempts follow each other directly within one type
        /\ \A i \in 1..(Len(log) - 1) :
              (log[i].op = "connect" /\ log[i + 1].op = "connect") =>
                  log[i].address_type # log[i + 1].address_type

\* C37: try_connect_with_retry makes at most max_retries attempts per address
\* type, public first; it returns True at the first attempt that succeeds and
\* does nothing after it; it returns False only when every attempt of both types
\* failed; it sleeps min(2^k, 10) seconds only between two attempts of one type;
\* and every call returns.
C37_RetryTerminates ==
    /\ []RetryLogOk
    /\ [][retry_task.pc = "returned" => retry_task' = retry_task]_vars
    /\ (retry_task.pc # "idle") ~> (retry_task.pc = "returned")

\* max_retries = 5: five failures with "public" and four with "random", with
\* sleeps of 2, 4, 8 and 10 seconds in between, then the fifth "random" attempt
\* succeeded.
C37_Witness ==
    /\ retry_task.max_retries = 5
    /\ retry_task.result = "True"
    /\ Len(retry_task.log) = 18
    /\ retry_task.log[8].op = "sleep" /\ retry_task.log[8].delay = 10
    /\ retry_task.log[9].address_type = "public"
    /\ retry_task.log[10].op = "connect" /\ retry_task.log[10].address_type = "random"
    /\ retry_task.log[18].ok


====
